---- MODULE Spec2Model ----
(***************************************************************************)
(* Model of the NL -> SQL service: the SQL extractor, the handle resolver  *)
(* and the safety guard (src/app.py, src/guard.py).                        *)
(*                                                                         *)
(* A Python str is a sequence of one-character strings.  The regular       *)
(* expressions of the source are modelled by scanning operators that       *)
(* follow Python's re semantics (leftmost match, non-overlapping findall   *)
(* and sub, \b as a change of word-character class).                       *)
(***************************************************************************)
EXTENDS Integers, Sequences, FiniteSets, TLC

VARIABLES
    pc,            \* position of the request inside ask(), or "call"/"done" in a function harness
    tables,        \* ask: the Candidate Set (pick_tables_for_question's result)
    limit,         \* ask: payload.limit
    raw_sql,       \* ask: the text llm_generate returned
    sql_clean,     \* ask: clean_sql_output(raw_sql)
    sql_replaced,  \* ask: replace_handles_with_tables(sql_clean, tables)
    sql_final,     \* ask: ensure_limit(sql_replaced, limit or 5000)
    response,      \* ask: the value returned to the caller
    executed,      \* ask: the statements handed to run_sql, in order
    calls,         \* ask: the guard functions called so far, with their results
    arg,           \* harness: the arguments of the function under test
    ret,           \* harness: what the function returned
    _VECTOR_VOCAB,   \* semantic_columns: the tokens of the vocabulary, in index order
    _COLUMN_VECTORS, \* semantic_columns: the cached list object, [id, items]
    _COLUMN_NAMES,   \* semantic_columns: the column names, in the order of the vectors
    cache_log        \* semantic_columns: the calls made so far, with what each returned

vars == <<pc, tables, limit, raw_sql, sql_clean, sql_replaced, sql_final,
          response, executed, calls, arg, ret,
          _VECTOR_VOCAB, _COLUMN_VECTORS, _COLUMN_NAMES, cache_log>>


(***************************************************************************)
(* Characters                                                              *)
(***************************************************************************)
LowerLetters == <<"a","b","c","d","e","f","g","h","i","j","k","l","m",
                  "n","o","p","q","r","s","t","u","v","w","x","y","z">>
UpperLetters == <<"A","B","C","D","E","F","G","H","I","J","K","L","M",
                  "N","O","P","Q","R","S","T","U","V","W","X","Y","Z">>
DigitChars == <<"0","1","2","3","4","5","6","7","8","9">>

Range(f) == {f[i] : i \in DOMAIN f}

LowerSet == Range(LowerLetters)
UpperSet == Range(UpperLetters)
DigitSet == Range(DigitChars)

\* \w of Python's re on the characters the model uses
IsWordChar(c) == c \in LowerSet \cup UpperSet \cup DigitSet \cup {"_"}

\* \s of Python's re, and the characters str.strip() removes
IsSpace(c) == c \in {" ", "\t", "\n", "\r"}

\* \d
IsDigit(c) == c \in DigitSet

\* str.upper() on one character
UpperChar(c) ==
    IF c \in LowerSet
    THEN UpperLetters[CHOOSE i \in 1..26 : LowerLetters[i] = c]
    ELSE c

\* str.upper()
upper(s) == [i \in 1..Len(s) |-> UpperChar(s[i])]

(***************************************************************************)
(* Python str and re primitives                                            *)
(***************************************************************************)
\* s[i:] with a 1-based i
Drop(s, i) == IF i > Len(s) THEN <<>> ELSE SubSeq(s, i, Len(s))

\* the literal lit occurs in s at index i (case-sensitive)
LitAt(s, i, lit) ==
    /\ i >= 1
    /\ i + Len(lit) - 1 <= Len(s)
    /\ \A k \in 1..Len(lit) : s[i + k - 1] = lit[k]

\* the literal lit (given in upper case) occurs in s at index i under re.I
LitAtCI(s, i, lit) ==
    /\ i >= 1
    /\ i + Len(lit) - 1 <= Len(s)
    /\ \A k \in 1..Len(lit) : UpperChar(s[i + k - 1]) = lit[k]

\* \b holds between s[i-1] and s[i]
WordBoundary(s, i) ==
    LET before == i - 1 >= 1 /\ i - 1 <= Len(s) /\ IsWordChar(s[i - 1])
        after  == i >= 1 /\ i <= Len(s) /\ IsWordChar(s[i])
    IN  before # after

\* str.startswith
startswith(s, prefix) == LitAt(s, 1, prefix)

\* index of the first character of s at or after i that is not in the class, Len(s)+1 if none
RECURSIVE SkipSpaces(_, _)
SkipSpaces(s, i) ==
    IF i <= Len(s) /\ IsSpace(s[i]) THEN SkipSpaces(s, i + 1) ELSE i

\* str.lstrip()
lstrip(s) == Drop(s, SkipSpaces(s, 1))

\* index of the last character of s[1..j] that is not in chars, 0 if none
RECURSIVE LastNotIn(_, _, _)
LastNotIn(s, j, chars) ==
    IF j >= 1 /\ s[j] \in chars THEN LastNotIn(s, j - 1, chars) ELSE j

\* str.rstrip(chars)
rstrip_chars(s, chars) == SubSeq(s, 1, LastNotIn(s, Len(s), chars))

SpaceChars == {" ", "\t", "\n", "\r"}

\* str.strip()
strip(s) == rstrip_chars(lstrip(s), SpaceChars)

\* str.replace(old, new): every non-overlapping occurrence, left to right
RECURSIVE ReplaceFrom(_, _, _, _)
ReplaceFrom(s, i, old, new) ==
    IF i > Len(s) THEN <<>>
    ELSE IF LitAt(s, i, old)
         THEN new \o ReplaceFrom(s, i + Len(old), old, new)
         ELSE <<s[i]>> \o ReplaceFrom(s, i + 1, old, new)

replace(s, old, new) == ReplaceFrom(s, 1, old, new)

\* str(n) for an int
RECURSIVE NatToStr(_)
NatToStr(n) ==
    IF n < 10 THEN <<DigitChars[n + 1]>>
    ELSE NatToStr(n \div 10) \o <<DigitChars[(n % 10) + 1]>>

IntToStr(n) == IF n < 0 THEN <<"-">> \o NatToStr(0 - n) ELSE NatToStr(n)

(***************************************************************************)
(* src/guard.py                                                            *)
(***************************************************************************)
SELECT == <<"S","E","L","E","C","T">>

\* the alternatives of DDL_DML
DDL_DML_WORDS ==
    { <<"U","P","D","A","T","E">>, <<"D","E","L","E","T","E">>,
      <<"I","N","S","E","R","T">>, <<"D","R","O","P">>, <<"A","L","T","E","R">>,
      <<"T","R","U","N","C","A","T","E">>, <<"C","R","E","A","T","E">>,
      <<"G","R","A","N","T">>, <<"R","E","V","O","K","E">> }

\* \b(lit)\b matches s at index i under re.I
WordAtCI(s, i, lit) ==
    /\ LitAtCI(s, i, lit)
    /\ WordBoundary(s, i)
    /\ WordBoundary(s, i + Len(lit))

\* DDL_DML.search(sql) is not None
DDL_DML_search(sql) ==
    \E i \in 1..Len(sql) : \E w \in DDL_DML_WORDS : WordAtCI(sql, i, w)

\* one pass of re.sub(r'\([^()]*\)', ' ', s): index of the ")" closing the "(" at i
\* when only non-parenthesis characters lie between them, 0 otherwise
RECURSIVE InnerClose(_, _)
InnerClose(s, j) ==
    IF j > Len(s) THEN 0
    ELSE IF s[j] = ")" THEN j
    ELSE IF s[j] = "(" THEN 0
    ELSE InnerClose(s, j + 1)

RECURSIVE SubInnerFrom(_, _)
SubInnerFrom(s, i) ==
    IF i > Len(s) THEN <<>>
    ELSE IF s[i] = "(" /\ InnerClose(s, i + 1) > 0
         THEN <<" ">> \o SubInnerFrom(s, InnerClose(s, i + 1) + 1)
         ELSE <<s[i]>> \o SubInnerFrom(s, i + 1)

\* whitelist_ok.strip_parentheses: the substitution repeated until nothing changes
RECURSIVE strip_parentheses(_)
strip_parentheses(s) ==
    LET t == SubInnerFrom(s, 1)
    IN  IF t = s THEN s ELSE strip_parentheses(t)

is_select_only_noscan(sql) ==
    startswith(upper(strip(sql)), SELECT)

is_select_only_parens_removed(sql) ==
    startswith(upper(strip(sql)), SELECT) /\ ~DDL_DML_search(strip_parentheses(sql))

is_select_only(sql) ==
    startswith(upper(strip(sql)), SELECT) /\ ~DDL_DML_search(sql)

\* the class [a-zA-Z0-9_."]
IsIdentChar(c) == IsWordChar(c) \/ c \in {".", "\""}

\* end (exclusive) of the run of [a-zA-Z0-9_."] that starts at i
RECURSIVE IdentEnd(_, _)
IdentEnd(s, i) ==
    IF i <= Len(s) /\ IsIdentChar(s[i]) THEN IdentEnd(s, i + 1) ELSE i

\* re.findall(r'\b<kw>\s+([a-zA-Z0-9_."]+)', s, flags=re.I) from index i on
RECURSIVE FindAllFrom(_, _, _)
FindAllFrom(s, i, kw) ==
    IF i > Len(s) THEN <<>>
    ELSE LET n == i + Len(kw)
             b == SkipSpaces(s, n)
             e == IdentEnd(s, b)
         IN  IF WordBoundary(s, i) /\ LitAtCI(s, i, kw) /\ b > n /\ e > b
             THEN <<SubSeq(s, b, e - 1)>> \o FindAllFrom(s, e, kw)
             ELSE FindAllFrom(s, i + 1, kw)

FROM == <<"F","R","O","M">>
JOIN == <<"J","O","I","N">>

\* f.strip('"')
RECURSIVE SkipQuotes(_, _)
SkipQuotes(s, i) ==
    IF i <= Len(s) /\ s[i] = "\"" THEN SkipQuotes(s, i + 1) ELSE i

strip_quotes(f) == rstrip_chars(Drop(f, SkipQuotes(f, 1)), {"\""})

\* f.split(".")[-1]
RECURSIVE LastDot(_, _)
LastDot(s, j) ==
    IF j >= 1 /\ s[j] # "." THEN LastDot(s, j - 1) ELSE j

last_segment(f) == Drop(f, LastDot(f, Len(f)) + 1)

\* the list comprehension of guard.py line 23
found_tables(sql_clean_) ==
    LET found == FindAllFrom(sql_clean_, 1, FROM) \o FindAllFrom(sql_clean_, 1, JOIN)
    IN  [k \in 1..Len(found) |-> last_segment(strip_quotes(found[k]))]

whitelist_ok_fromonly(sql, allowed_tables) ==
    LET s == strip_parentheses(sql)
        found == FindAllFrom(s, 1, FROM)
    IN  \A k \in 1..Len(found) :
            last_segment(strip_quotes(found[k])) \in Range(allowed_tables)

whitelist_ok_reversed(sql, allowed_tables) ==
    LET found == found_tables(strip_parentheses(sql))
    IN  \A t \in Range(allowed_tables) : t \in Range(found)

whitelist_ok(sql, allowed_tables) ==
    LET found == found_tables(strip_parentheses(sql))
    IN  \A k \in 1..Len(found) : found[k] \in Range(allowed_tables)

LIMIT == <<"L","I","M","I","T">>

\* end (exclusive) of the run of digits that starts at i
RECURSIVE DigitsEnd(_, _)
DigitsEnd(s, i) ==
    IF i <= Len(s) /\ IsDigit(s[i]) THEN DigitsEnd(s, i + 1) ELSE i

\* re.search(r"\blimit\s+\d+", sql, re.I) is not None
limit_search(sql) ==
    \E i \in 1..Len(sql) :
        LET n == i + Len(LIMIT)
            b == SkipSpaces(sql, n)
        IN  WordBoundary(sql, i) /\ LitAtCI(sql, i, LIMIT) /\ b > n
            /\ DigitsEnd(sql, b) > b

LimitSuffix(default_limit) == <<" ">> \o LIMIT \o <<" ">> \o IntToStr(default_limit) \o <<";">>

ensure_limit_always(sql, default_limit) ==
    rstrip_chars(sql, {" ", ";"}) \o LimitSuffix(default_limit)

ensure_limit_ws(sql, default_limit) ==
    IF limit_search(sql) THEN sql
    ELSE rstrip_chars(sql, SpaceChars \cup {";"}) \o LimitSuffix(default_limit)

ensure_limit(sql, default_limit) ==
    IF limit_search(sql) THEN sql
    ELSE rstrip_chars(sql, {" ", ";"}) \o LimitSuffix(default_limit)

(***************************************************************************)
(* src/app.py                                                              *)
(***************************************************************************)
\* the grave accent, U+0060: the character cannot be written in a TLA+ string literal
GRAVE == "<grave>"
FENCE == <<GRAVE, GRAVE, GRAVE>>
FENCE_sql == FENCE \o <<"s","q","l">>
FENCE_SQL == FENCE \o <<"S","Q","L">>

\* index of the first match of SELECT under re.I at or after i, 0 if none
RECURSIVE FirstSelect(_, _)
FirstSelect(s, i) ==
    IF i > Len(s) THEN 0
    ELSE IF LitAtCI(s, i, SELECT) THEN i
    ELSE FirstSelect(s, i + 1)

\* index of the first ";" at or after i, 0 if none
RECURSIVE FirstSemicolon(_, _)
FirstSemicolon(s, i) ==
    IF i > Len(s) THEN 0
    ELSE IF s[i] = ";" THEN i
    ELSE FirstSemicolon(s, i + 1)

\* steps 2 and 3 of clean_sql_output on the de-fenced text
select_span(s) ==
    LET p == FirstSelect(s, 1)
        q == IF p = 0 THEN 0 ELSE FirstSemicolon(s, p + Len(SELECT))
    IN  IF p > 0 /\ q > 0 THEN SubSeq(s, p, q - 1) \o <<";">>
        ELSE IF p > 0 THEN Drop(s, p)
        ELSE s

\* index of the last ";" of s[1..j], 0 if none
RECURSIVE LastSemicolon(_, _)
LastSemicolon(s, j) ==
    IF j < 1 THEN 0
    ELSE IF s[j] = ";" THEN j
    ELSE LastSemicolon(s, j - 1)

\* the span with a greedy [\s\S]*: up to the last semicolon
select_span_greedy(s) ==
    LET p == FirstSelect(s, 1)
        q == IF p = 0 THEN 0 ELSE LastSemicolon(s, Len(s))
    IN  IF p > 0 /\ q >= p + Len(SELECT) THEN SubSeq(s, p, q - 1) \o <<";">>
        ELSE IF p > 0 THEN Drop(s, p)
        ELSE s

clean_sql_output_greedy(raw) ==
    IF raw = <<>> THEN <<>>
    ELSE LET s == replace(replace(replace(strip(raw), FENCE_sql, <<>>), FENCE_SQL, <<>>), FENCE, <<>>)
         IN  strip(select_span_greedy(s))

\* the fences removed and nothing extracted
clean_sql_output_whole(raw) ==
    IF raw = <<>> THEN <<>>
    ELSE strip(replace(replace(replace(strip(raw), FENCE_sql, <<>>), FENCE_SQL, <<>>), FENCE, <<>>))

clean_sql_output_empty(raw) ==
    IF raw = <<>> THEN <<>>
    ELSE LET s == replace(replace(replace(strip(raw), FENCE_sql, <<>>), FENCE_SQL, <<>>), FENCE, <<>>)
         IN  IF FirstSelect(s, 1) = 0 THEN <<>> ELSE strip(select_span(s))

clean_sql_output(raw) ==
    IF raw = <<>> THEN <<>>
    ELSE LET s == replace(replace(replace(strip(raw), FENCE_sql, <<>>), FENCE_SQL, <<>>), FENCE, <<>>)
         IN  strip(select_span(s))

\* the handle of position i: f"T{i}"
Handle(i) == <<"T">> \o IntToStr(i)

\* re.sub of \b<word>\b by repl in s: case-sensitive, every non-overlapping match
RECURSIVE SubWordFrom(_, _, _, _)
SubWordFrom(s, i, word, repl) ==
    IF i > Len(s) THEN <<>>
    ELSE IF LitAt(s, i, word) /\ WordBoundary(s, i) /\ WordBoundary(s, i + Len(word))
         THEN repl \o SubWordFrom(s, i + Len(word), word, repl)
         ELSE <<s[i]>> \o SubWordFrom(s, i + 1, word, repl)

sub_word(s, word, repl) == SubWordFrom(s, 1, word, repl)

Quoted(w) == <<"\"">> \o w \o <<"\"">>

\* the body of the loop of replace_handles_with_tables for position i
resolve_one(out, i, t) ==
    replace(sub_word(out, Handle(i), t), Quoted(Handle(i)), Quoted(t))

RECURSIVE ResolveFrom(_, _, _)
ResolveFrom(out, i, tbls) ==
    IF i > Len(tbls) THEN out
    ELSE ResolveFrom(resolve_one(out, i, tbls[i]), i + 1, tbls)

RECURSIVE ResolveSubstrFrom(_, _, _)
ResolveSubstrFrom(out, i, tbls) ==
    IF i > Len(tbls) THEN out
    ELSE ResolveSubstrFrom(replace(out, Handle(i), tbls[i]), i + 1, tbls)

replace_handles_substring(sql, tbls) == ResolveSubstrFrom(sql, 1, tbls)

replace_handles_first_only(sql, tbls) ==
    IF tbls = <<>> THEN sql ELSE resolve_one(sql, 1, tbls[1])

\* the loop with enumerate(tables) counting from 0
RECURSIVE ResolveZeroBasedFrom(_, _, _)
ResolveZeroBasedFrom(out, i, tbls) ==
    IF i > Len(tbls) THEN out
    ELSE ResolveZeroBasedFrom(resolve_one(out, i - 1, tbls[i]), i + 1, tbls)

replace_handles_zero_based(sql, tbls) == ResolveZeroBasedFrom(sql, 1, tbls)

replace_handles_with_tables(sql, tbls) == ResolveFrom(sql, 1, tbls)

\* str.lstrip("(")
RECURSIVE SkipOpen(_, _)
SkipOpen(s, i) ==
    IF i <= Len(s) /\ s[i] = "(" THEN SkipOpen(s, i + 1) ELSE i

\* defined in app.py and never called
is_select_only_tol(sql) ==
    LET l == lstrip(sql)
        s == Drop(l, SkipOpen(l, 1))
    IN  upper(SubSeq(s, 1, IF Len(s) < 6 THEN Len(s) ELSE 6)) = SELECT
        /\ ~DDL_DML_search(s)

(***************************************************************************)
(* src/schema_loader.py: the type classifier                               *)
(***************************************************************************)
\* k in t, for str
Contains(t, k) == \E i \in 1..Len(t) : LitAt(t, i, k)

DATE_KEYS == { <<"D","A","T","E">>, <<"T","I","M","E","S","T","A","M","P">>, <<"T","I","M","E">> }
NUMBER_KEYS ==
    { <<"I","N","T">>, <<"N","U","M">>, <<"D","E","C">>, <<"F","L","O","A","T">>,
      <<"D","O","U","B","L","E">>, <<"R","E","A","L">> }
TEXT_KEYS ==
    { <<"C","H","A","R">>, <<"T","E","X","T">>, <<"S","T","R","I","N","G">>, <<"C","L","O","B">> }
BOOL_KEY == <<"B","O","O","L">>

\* the classifier with the number rule tried before the date rule
_sqltype_kind_number_first(sql_type) ==
    IF sql_type = <<>> THEN "other"
    ELSE LET t == upper(sql_type)
         IN  IF \E k \in NUMBER_KEYS : Contains(t, k) THEN "number"
             ELSE IF \E k \in DATE_KEYS : Contains(t, k) THEN "date"
             ELSE IF \E k \in TEXT_KEYS : Contains(t, k) THEN "text"
             ELSE IF Contains(t, BOOL_KEY) THEN "bool"
             ELSE "other"

\* _sqltype_kind(sql_type); a missing type (None) is <<>>
_sqltype_kind(sql_type) ==
    IF sql_type = <<>> THEN "other"
    ELSE LET t == upper(sql_type)
         IN  IF \E k \in DATE_KEYS : Contains(t, k) THEN "date"
             ELSE IF \E k \in NUMBER_KEYS : Contains(t, k) THEN "number"
             ELSE IF \E k \in TEXT_KEYS : Contains(t, k) THEN "text"
             ELSE IF Contains(t, BOOL_KEY) THEN "bool"
             ELSE "other"

(***************************************************************************)
(* src/schema_loader.py: column selection                                  *)
(* A table's columns (cols_meta) are the sequence, in dict order, of the   *)
(* records [name, type, description].                                      *)
(***************************************************************************)
\* the letter e with an acute accent, U+00E9, of the class [à-ÿ]
E_ACUTE == "<e-acute>"

\* str.lower() on one character
LowerChar(c) ==
    IF c \in UpperSet
    THEN LowerLetters[CHOOSE i \in 1..26 : UpperLetters[i] = c]
    ELSE c

\* str.lower()
lower(s) == [i \in 1..Len(s) |-> LowerChar(s[i])]

\* the class [a-z0-9_à-ÿ] of the tokens
TokenChars == LowerSet \cup DigitSet \cup {"_", E_ACUTE}

\* the class [a-zà-ÿ%><=] of _expected_kinds
KindWordChars == LowerSet \cup {E_ACUTE, "%", ">", "<", "="}

\* end (exclusive) of the run of characters of the class that starts at i
RECURSIVE RunEnd(_, _, _)
RunEnd(s, i, chars) ==
    IF i <= Len(s) /\ s[i] \in chars THEN RunEnd(s, i + 1, chars) ELSE i

\* set(re.findall(r"[<class>]+", s)) from index i on
RECURSIVE RunsFrom(_, _, _)
RunsFrom(s, i, chars) ==
    IF i > Len(s) THEN {}
    ELSE IF s[i] \in chars
         THEN {SubSeq(s, i, RunEnd(s, i, chars) - 1)} \cup RunsFrom(s, RunEnd(s, i, chars), chars)
         ELSE RunsFrom(s, i + 1, chars)

\* int() of one digit
DigitValue(c) == (CHOOSE k \in 1..10 : DigitChars[k] = c) - 1

\* YEAR_RE = \b(20[0-9]{2})\b matches at index i
YearAt(s, i) ==
    /\ i + 3 <= Len(s)
    /\ ~(i > 1 /\ (IsWordChar(s[i - 1]) \/ s[i - 1] = E_ACUTE))
    /\ s[i] = "2" /\ s[i + 1] = "0" /\ IsDigit(s[i + 2]) /\ IsDigit(s[i + 3])
    /\ ~(i + 4 <= Len(s) /\ (IsWordChar(s[i + 4]) \/ s[i + 4] = E_ACUTE))

_extract_years(question) ==
    LET found == {2000 + 10 * DigitValue(question[i + 2]) + DigitValue(question[i + 3]) :
                     i \in {i \in 1..Len(question) : YearAt(question, i)}}
    IN  {y \in found : 2000 <= y /\ y <= 2099}

_DATE_WORDS ==
    { <<"d","a","t","e">>, <<"a","n","n",E_ACUTE,"e">>, <<"a","n">>,
      <<"m","o","i","s">>, <<"j","o","u","r">>, <<"s","e","m","a","i","n","e">>,
      <<"t","r","i","m","e","s","t","r","e">>, <<"s","e","m","e","s","t","r","e">>,
      <<"y">>, <<"y","e","a","r">>, <<"m","o","n","t","h">>, <<"d","a","y">> }

_NUM_WORDS ==
    { <<"c","o","m","b","i","e","n">>, <<"t","o","t","a","l">>,
      <<"s","o","m","m","e">>, <<"m","o","y","e","n","n","e">>,
      <<"c","o","u","n","t">>, <<"a","v","g">>, <<"s","u","m">>, <<"m","i","n">>,
      <<"m","a","x">>, <<E_ACUTE,"c","a","r","t">>,
      <<"r",E_ACUTE,"p","a","r","t","i","t","i","o","n">>, <<"t","o","p">>, <<"%">>,
      <<"p","e","r","c","e","n","t">>, <<"p","o","u","r","c","e","n","t","a","g","e">>,
      <<"n","b">> }

_TEXT_WORDS ==
    { <<"n","o","m">>, <<"n","a","m","e">>, <<"t","i","t","r","e">>,
      <<"c","o","d","e">>, <<"l","i","b","e","l","l",E_ACUTE>>,
      <<"d","e","s","c","r","i","p","t","i","o","n">>,
      <<"c","o","n","t","i","e","n","t">>, <<"l","i","k","e">>,
      <<"i","l","i","k","e">> }

_expected_kinds(question) ==
    LET words == RunsFrom(lower(question), 1, KindWordChars)
    IN  (IF words \cap _DATE_WORDS # {} \/ _extract_years(question) # {} THEN {"date"} ELSE {})
        \cup (IF words \cap _NUM_WORDS # {} THEN {"number"} ELSE {})
        \cup (IF words \cap _TEXT_WORDS # {} THEN {"text"} ELSE {})

\* str.endswith
endswith(s, suffix) == LitAt(s, Len(s) - Len(suffix) + 1, suffix)

COL_ID == <<"I","D">>
COL_PROJECT_ID == <<"P","R","O","J","E","C","T","_","I","D">>
COL_NAME == <<"N","A","M","E">>
COL_CODE == <<"C","O","D","E">>
COL_START_DATE == <<"S","T","A","R","T","_","D","A","T","E">>
COL_END_DATE == <<"E","N","D","_","D","A","T","E">>

\* the score of one column: the body of the loop over cols_meta
ColumnScore(meta, question) ==
    LET kinds == _expected_kinds(question)
        years == _extract_years(question)
        tokens == RunsFrom(lower(question), 1, TokenChars)
        cname == lower(meta.name)
        cdesc == lower(meta.description)
        ckind == _sqltype_kind(meta.type)
    IN  (IF kinds # {} /\ ckind \in kinds THEN 3 ELSE 0)
        + (IF years # {} THEN (IF ckind = "date" THEN 3 ELSE 0 - 1) ELSE 0)
        + (IF \E tok \in tokens : Contains(cname, tok) THEN 2 ELSE 0)
        + (IF cdesc # <<>> /\ \E tok \in tokens : Contains(cdesc, tok) THEN 1 ELSE 0)
        + (IF meta.name = COL_ID \/ endswith(meta.name, <<"_","I","D">>) THEN 4 ELSE 0)
        + (IF meta.name \in {COL_NAME, COL_CODE} THEN 3 ELSE 0)
        + (IF meta.name \in {COL_START_DATE, COL_END_DATE} THEN 3 ELSE 0)

\* ord() on the characters of identifiers
CharCode(c) ==
    IF c \in DigitSet THEN 48 + DigitValue(c)
    ELSE IF c \in UpperSet THEN 64 + (CHOOSE i \in 1..26 : UpperLetters[i] = c)
    ELSE IF c = "_" THEN 95
    ELSE IF c \in LowerSet THEN 96 + (CHOOSE i \in 1..26 : LowerLetters[i] = c)
    ELSE 0

\* a < b for str
RECURSIVE StrLess(_, _)
StrLess(a, b) ==
    IF b = <<>> THEN FALSE
    ELSE IF a = <<>> THEN TRUE
    ELSE IF Head(a) # Head(b) THEN CharCode(Head(a)) < CharCode(Head(b))
    ELSE StrLess(Tail(a), Tail(b))

\* the key (-score, col) of x is smaller than that of y
ScoreKeyLess(x, y) ==
    \/ x.score > y.score
    \/ x.score = y.score /\ StrLess(x.col, y.col)

\* scores.sort(key=lambda x: (-x[0], x[1])), the column names being distinct
RECURSIVE SortScores(_)
SortScores(scores) ==
    IF scores = {} THEN <<>>
    ELSE LET first == CHOOSE x \in scores : \A y \in scores \ {x} : ScoreKeyLess(x, y)
         IN  <<first>> \o SortScores(scores \ {first})

\* the first loop over the sorted scores, from the k-th on
RECURSIVE PickSorted(_, _, _, _)
PickSorted(sorted, k, picked, max_cols) ==
    IF k > Len(sorted) THEN picked
    ELSE LET c == sorted[k].col
             more == IF c \in Range(picked) THEN picked ELSE Append(picked, c)
         IN  IF Len(more) >= max_cols THEN more
             ELSE PickSorted(sorted, k + 1, more, max_cols)

\* the second loop, over must_keep, from the k-th on
RECURSIVE AppendMustKeep(_, _, _, _)
AppendMustKeep(must_keep, k, picked, max_cols) ==
    IF k > Len(must_keep) THEN picked
    ELSE AppendMustKeep(must_keep, k + 1,
             IF must_keep[k] \notin Range(picked) /\ Len(picked) < max_cols
             THEN Append(picked, must_keep[k]) ELSE picked,
             max_cols)

MUST_KEEP == <<COL_ID, COL_PROJECT_ID, COL_NAME, COL_CODE, COL_START_DATE, COL_END_DATE>>

\* must_keep = [c for c in (...) if c in cols_meta]
must_keep_of(cols_meta) ==
    SelectSeq(MUST_KEEP, LAMBDA c : \E k \in 1..Len(cols_meta) : cols_meta[k].name = c)

pick_columns_for_table(cols_meta, question, max_cols) ==
    LET scores == {[score |-> ColumnScore(cols_meta[k], question), col |-> cols_meta[k].name] :
                      k \in 1..Len(cols_meta)}
        picked == PickSorted(SortScores(scores), 1, <<>>, max_cols)
    IN  AppendMustKeep(must_keep_of(cols_meta), 1, picked, max_cols)

(***************************************************************************)
(* src/sql/semantic_columns.py: the column embeddings and their cache      *)
(* A connection is the database it reaches: the sequence of its tables,    *)
(* each [name, columns].  A list object is [id, items]; two lists are the  *)
(* same object when their ids are equal.  A vector is [counts, normsq]:    *)
(* its i-th component is counts[i] / sqrt(normsq), or 0.0 when normsq = 0. *)
(***************************************************************************)
\* end (exclusive) of the run of non-whitespace characters that starts at i
RECURSIVE TokenEnd(_, _)
TokenEnd(s, i) ==
    IF i <= Len(s) /\ ~IsSpace(s[i]) THEN TokenEnd(s, i + 1) ELSE i

\* str.split() from index i on
RECURSIVE SplitFrom(_, _)
SplitFrom(s, i) ==
    IF i > Len(s) THEN <<>>
    ELSE IF IsSpace(s[i]) THEN SplitFrom(s, i + 1)
    ELSE <<SubSeq(s, i, TokenEnd(s, i) - 1)>> \o SplitFrom(s, TokenEnd(s, i))

_tokenize(text) ==
    LET low == lower(text)
        spaced == [i \in 1..Len(low) |-> IF low[i] \in {".", "_"} THEN " " ELSE low[i]]
    IN  SplitFrom(spaced, 1)

\* the names table.column of one table, in the order of its columns
ColumnNamesOf(table) ==
    [k \in 1..Len(table.columns) |-> table.name \o <<".">> \o table.columns[k]]

\* columns_text: the names of the columns of the tables from the t-th on
RECURSIVE ColumnsTextFrom(_, _)
ColumnsTextFrom(connection, t) ==
    IF t > Len(connection) THEN <<>>
    ELSE ColumnNamesOf(connection[t]) \o ColumnsTextFrom(connection, t + 1)

\* the vocabulary once the tokens from the k-th on have been added
RECURSIVE AddTokens(_, _, _)
AddTokens(vocab, tokens, k) ==
    IF k > Len(tokens) THEN vocab
    ELSE AddTokens(IF tokens[k] \in Range(vocab) THEN vocab ELSE Append(vocab, tokens[k]),
                   tokens, k + 1)

\* the vocabulary once the texts from the k-th on have been added
RECURSIVE BuildVocab(_, _, _)
BuildVocab(vocab, texts, k) ==
    IF k > Len(texts) THEN vocab
    ELSE BuildVocab(AddTokens(vocab, _tokenize(texts[k]), 1), texts, k + 1)

RECURSIVE SumOfSquares(_)
SumOfSquares(v) ==
    IF v = <<>> THEN 0 ELSE Head(v) * Head(v) + SumOfSquares(Tail(v))

\* the normalised vector of one text
Embedding(text, vocab) ==
    LET tokens == _tokenize(text)
        counts == [i \in 1..Len(vocab) |->
                      Cardinality({k \in 1..Len(tokens) : tokens[k] = vocab[i]})]
    IN  [counts |-> counts, normsq |-> SumOfSquares(counts)]

\* the caches after a build that inspects the database
RebuiltCache(connection) ==
    LET columns_text == ColumnsTextFrom(connection, 1)
        vocab == BuildVocab(_VECTOR_VOCAB, columns_text, 1)
    IN  [vocab |-> vocab,
         names |-> _COLUMN_NAMES \o columns_text,
         vectors |-> [id |-> _COLUMN_VECTORS.id,
                      items |-> _COLUMN_VECTORS.items
                                    \o [k \in 1..Len(columns_text) |->
                                            Embedding(columns_text[k], vocab)]],
         inspected |-> TRUE]

\* a build that does not look at the cache
build_column_embeddings_uncached(connection) == RebuiltCache(connection)

\* the caches after the call, the list it returns (vectors) and whether it inspected
\* the database
build_column_embeddings(connection) ==
    IF _COLUMN_VECTORS.items # <<>>
    THEN [vocab |-> _VECTOR_VOCAB, names |-> _COLUMN_NAMES, vectors |-> _COLUMN_VECTORS,
          inspected |-> FALSE]
    ELSE RebuiltCache(connection)

\* the caches after a build whose inspection raises once the names of the columns of
\* the first tables_done tables have been appended
FailedBuildNames(connection, tables_done) ==
    _COLUMN_NAMES \o ColumnsTextFrom(SubSeq(connection, 1, tables_done), 1)

\* the counts of the query's tokens, by vocabulary index
QueryCounts(query_text) ==
    LET tokens == _tokenize(query_text)
    IN  [i \in 1..Len(_VECTOR_VOCAB) |->
            Cardinality({k \in 1..Len(tokens) : tokens[k] = _VECTOR_VOCAB[i]})]

\* sum(a * b for a, b in zip(u, v)) on the counts
RECURSIVE DotProduct(_, _)
DotProduct(u, v) ==
    IF u = <<>> \/ v = <<>> THEN 0
    ELSE Head(u) * Head(v) + DotProduct(Tail(u), Tail(v))

\* the similarity of the vector at index i is at least that of the vector at index j:
\* with d the dot product of the counts and n the squared norm of the column vector
\* (1 for a null vector), the similarity is d / sqrt(n) up to the factor of the query
SimilarityAtLeast(query_text, i, j) ==
    LET q == QueryCounts(query_text)
        vi == _COLUMN_VECTORS.items[i]
        vj == _COLUMN_VECTORS.items[j]
        di == DotProduct(q, vi.counts)
        dj == DotProduct(q, vj.counts)
        ni == IF vi.normsq = 0 THEN 1 ELSE vi.normsq
        nj == IF vj.normsq = 0 THEN 1 ELSE vj.normsq
    IN  di * di * nj >= dj * dj * ni

\* the index lists similarities.sort(reverse=True) and [:top_k] can give; vectors of
\* equal similarity come in either order, the floating-point sums deciding
Rankings(query_text, top_k) ==
    LET n == Len(_COLUMN_VECTORS.items)
        m == IF top_k < n THEN top_k ELSE n
    IN  {order \in [1..m -> 1..n] :
            /\ \A a, b \in 1..m : a < b =>
                   order[a] # order[b] /\ SimilarityAtLeast(query_text, order[a], order[b])
            /\ \A i \in (1..n) \ Range(order) :
                   \A a \in 1..m : SimilarityAtLeast(query_text, order[a], i)}

\* [_COLUMN_NAMES[i] for i in indices]
find_relevant_columns(indices) == [k \in 1..Len(indices) |-> _COLUMN_NAMES[indices[k]]]

(***************************************************************************)
(* src/schema_loader.py: table selection                                   *)
(* A schema is the sequence, in dict order, of its tables, each            *)
(* [name, description_table, aliases, columns, fks]; columns is the        *)
(* sequence of [name, type, description], fks the sequence of [from, to].  *)
(***************************************************************************)
\* k in t, for str, the empty k included
StrIn(k, t) == k = <<>> \/ Contains(t, k)

\* seq[:k]
Slice(seq, k) ==
    IF k >= 0 THEN SubSeq(seq, 1, IF k < Len(seq) THEN k ELSE Len(seq))
    ELSE SubSeq(seq, 1, Len(seq) + k)

\* q.replace(",", " ").replace(";", " ").split()
QuestionWords(q) ==
    SplitFrom([i \in 1..Len(q) |-> IF q[i] \in {",", ";"} THEN " " ELSE q[i]], 1)

\* 1) sum(3 for w in words if w in desc), for a non-empty description
DescriptionScore(tinfo, question) ==
    LET words == QuestionWords(lower(question))
        desc == lower(tinfo.description_table)
    IN  IF desc = <<>> THEN 0
        ELSE 3 * Cardinality({k \in 1..Len(words) : StrIn(words[k], desc)})

\* 2) sum(2 for tok in toks if tok and tok.lower() in q)
NameScore(tinfo, question) ==
    LET toks == <<tinfo.name>> \o tinfo.aliases
    IN  2 * Cardinality({k \in 1..Len(toks) :
                            toks[k] # <<>> /\ StrIn(lower(toks[k]), lower(question))})

\* 3) sum(1 for c in cols if c.lower() in q), over the first 30 columns
ColumnNameScore(tinfo, question) ==
    LET cols == Slice(tinfo.columns, 30)
    IN  Cardinality({k \in 1..Len(cols) : StrIn(lower(cols[k].name), lower(question))})

TableScore(tinfo, question) ==
    DescriptionScore(tinfo, question) + NameScore(tinfo, question)
        + ColumnNameScore(tinfo, question)

\* the pair (score, tname) of x is greater than that of y
ScorePairGreater(x, y) ==
    \/ x.score > y.score
    \/ x.score = y.score /\ StrLess(y.tname, x.tname)

\* scores.sort(reverse=True), the table names being distinct
RECURSIVE SortReverse(_)
SortReverse(scores) ==
    IF scores = {} THEN <<>>
    ELSE LET first == CHOOSE x \in scores : \A y \in scores \ {x} : ScorePairGreater(x, y)
         IN  <<first>> \o SortReverse(scores \ {first})

\* [t for _, t in scores[:top_k]]
TopScoring(schema, question, top_k) ==
    LET scores == {[score |-> TableScore(schema[t], question), tname |-> schema[t].name] :
                      t \in {t \in 1..Len(schema) : TableScore(schema[t], question) # 0}}
        top == Slice(SortReverse(scores), top_k)
    IN  [k \in 1..Len(top) |-> top[k].tname]

\* list(schema["tables"].keys())[:3]
FirstTables(schema) ==
    LET first == Slice(schema, 3)
    IN  [k \in 1..Len(first) |-> first[k].name]

pick_tables_for_question(schema, question, top_k) ==
    IF TopScoring(schema, question, top_k) # <<>>
    THEN TopScoring(schema, question, top_k)
    ELSE FirstTables(schema)

(***************************************************************************)
(* src/schema_loader.py: load_schema and build_context_pack                *)
(* A schema source is [format, tables]: with the format "list" tables is   *)
(* the list of the JSON, each entry [name, description_table, columns,     *)
(* fks] (an absent key is the empty value); with the format "dict" it is   *)
(* the schema itself; any other format is neither.                         *)
(***************************************************************************)
\* d[rec.name] = rec on a dict kept as the sequence of its values
PutByName(d, rec) ==
    IF \E k \in 1..Len(d) : d[k].name = rec.name
    THEN [k \in 1..Len(d) |-> IF d[k].name = rec.name THEN rec ELSE d[k]]
    ELSE Append(d, rec)

\* the loop over cols_list, from the k-th entry on
RECURSIVE LoadColumns(_, _, _)
LoadColumns(cols_list, k, cols) ==
    IF k > Len(cols_list) THEN cols
    ELSE LoadColumns(cols_list, k + 1,
             IF cols_list[k].name = <<>> THEN cols
             ELSE PutByName(cols, [name |-> cols_list[k].name,
                                   type |-> cols_list[k].type,
                                   description |-> cols_list[k].description]))

\* the loop over tables_block, from the k-th entry on
RECURSIVE LoadTables(_, _, _)
LoadTables(tables_block, k, tables_) ==
    IF k > Len(tables_block) THEN tables_
    ELSE LoadTables(tables_block, k + 1,
             IF tables_block[k].name = <<>> THEN tables_
             ELSE PutByName(tables_, [name |-> tables_block[k].name,
                                      description_table |-> tables_block[k].description_table,
                                      aliases |-> <<>>,
                                      columns |-> LoadColumns(tables_block[k].columns, 1, <<>>),
                                      fks |-> <<>>]))

\* the schema, or the exception raised
load_schema(source) ==
    IF source.format = "list"
    THEN [raised |-> "", schema |-> LoadTables(source.tables, 1, <<>>)]
    ELSE IF source.format = "dict" THEN [raised |-> "", schema |-> source.tables]
    ELSE [raised |-> "ValueError", schema |-> <<>>]

\* schema["tables"][t]
TableNamed(schema, t) == schema[CHOOSE k \in 1..Len(schema) : schema[k].name = t]

\* sep.join(parts)
RECURSIVE JoinWith(_, _)
JoinWith(parts, sep) ==
    IF parts = <<>> THEN <<>>
    ELSE IF Len(parts) = 1 THEN parts[1]
    ELSE parts[1] \o sep \o JoinWith(Tail(parts), sep)

\* index of the first "." of s at or after i, Len(s) + 1 if none
RECURSIVE NextDot(_, _)
NextDot(s, i) ==
    IF i <= Len(s) /\ s[i] # "." THEN NextDot(s, i + 1) ELSE i

\* s.split(".") from index i on
RECURSIVE SplitDotsFrom(_, _)
SplitDotsFrom(s, i) ==
    IF NextDot(s, i) > Len(s) THEN <<Drop(s, i)>>
    ELSE <<SubSeq(s, i, NextDot(s, i) - 1)>> \o SplitDotsFrom(s, NextDot(s, i) + 1)

split_dots(s) == SplitDotsFrom(s, 1)

\* tables.index(tgt) + 1
IndexOf(tables_, tgt) ==
    CHOOSE j \in 1..Len(tables_) : tables_[j] = tgt /\ \A k \in 1..(j - 1) : tables_[k] # tgt

\* f"{c} {(cols_meta[c].get('type') or '')}".rstrip()
PrettyColumn(cols_meta, c) ==
    LET meta == cols_meta[CHOOSE k \in 1..Len(cols_meta) : cols_meta[k].name = c]
    IN  rstrip_chars(c \o <<" ">> \o meta.type, SpaceChars)

\* f"T{i}={t}({pretty})"
ContextLine(i, t, cols_meta, cols) ==
    Handle(i) \o <<"=">> \o t \o <<"(">>
        \o JoinWith([k \in 1..Len(cols) |-> PrettyColumn(cols_meta, cols[k])], <<",", " ">>)
        \o <<")">>

\* the foreign keys of a table whose target is in the selection
FksInSelection(tinfo, tables_) ==
    SelectSeq(tinfo.fks, LAMBDA fk : split_dots(fk.to)[1] \in Range(tables_))

\* f"T{i}.{fk['from']} -> T{j}.{to.split('.')[1]}" with the j given
RelationText(i, fk, j) ==
    Handle(i) \o <<".">> \o fk.from \o <<" ", "-", ">", " ">>
        \o Handle(j) \o <<".">> \o split_dots(fk.to)[2]

\* the relations of the tables from the i-th on
RECURSIVE RelationsFrom(_, _, _)
RelationsFrom(schema, tables_, i) ==
    IF i > Len(tables_) THEN <<>>
    ELSE LET fks == FksInSelection(TableNamed(schema, tables_[i]), tables_)
         IN  [k \in 1..Len(fks) |->
                 RelationText(i, fks[k], IndexOf(tables_, split_dots(fks[k].to)[1]))]
             \o RelationsFrom(schema, tables_, i + 1)

\* a foreign key to a table of the selection names no column: to.split('.')[1] fails
RelationRaises(schema, tables_) ==
    \E i \in 1..Len(tables_) :
        LET fks == FksInSelection(TableNamed(schema, tables_[i]), tables_)
        IN  \E k \in 1..Len(fks) : Len(split_dots(fks[k].to)) < 2

\* the body of build_context_pack: (context, tables, selected_cols), or the exception raised
ContextPack(schema, question, top_tables, cols_per_table) ==
    LET tables_ == pick_tables_for_question(schema, question, top_tables)
        selected_cols == [k \in 1..Len(tables_) |->
                             pick_columns_for_table(TableNamed(schema, tables_[k]).columns,
                                                    question, cols_per_table)]
        lines == [k \in 1..Len(tables_) |->
                     ContextLine(k, tables_[k], TableNamed(schema, tables_[k]).columns,
                                 selected_cols[k])]
    IN  IF RelationRaises(schema, tables_)
        THEN [raised |-> "IndexError", context |-> <<>>, tables |-> <<>>,
              selected_cols |-> <<>>]
        ELSE LET rels == RelationsFrom(schema, tables_, 1)
             IN  [raised |-> "",
                  context |-> JoinWith(lines, <<"\n">>)
                                 \o (IF rels # <<>>
                                     THEN <<"\n","R","e","l","a","t","i","o","n","s",":"," ">>
                                              \o JoinWith(rels, <<";", " ">>)
                                     ELSE <<>>),
                  tables |-> tables_,
                  selected_cols |-> selected_cols]

\* the builder that returns the table list in the opposite order
build_context_pack_reversed(schema, question, top_tables, cols_per_table) ==
    LET pack == ContextPack(schema, question, top_tables, cols_per_table)
    IN  [pack EXCEPT !.tables = [k \in 1..Len(@) |-> @[Len(@) + 1 - k]]]

build_context_pack(schema, question, top_tables, cols_per_table) ==
    ContextPack(schema, question, top_tables, cols_per_table)

(***************************************************************************)
(* src/sql/utils.py: the literal coercer                                   *)
(* A schema is the sequence of its tables in dict order, a table the       *)
(* record of its name and of the sequence of its columns [name, type].     *)
(***************************************************************************)
\* end (exclusive) of the run of \w that starts at i
RECURSIVE WordRunEnd(_, _)
WordRunEnd(s, i) ==
    IF i <= Len(s) /\ IsWordChar(s[i]) THEN WordRunEnd(s, i + 1) ELSE i

\* \"?{col}\"?\s*=\s*(\d+) under (?i) matched at k: index of the first digit of
\* group 2, 0 when there is no match
CoerceTailAt(s, k, col) ==
    LET k1 == IF k <= Len(s) /\ s[k] = "\"" /\ LitAtCI(s, k + 1, upper(col)) THEN k + 1 ELSE k
        k2 == k1 + Len(col)
        k3 == IF k2 <= Len(s) /\ s[k2] = "\"" THEN k2 + 1 ELSE k2
        k4 == SkipSpaces(s, k3)
        k5 == SkipSpaces(s, k4 + 1)
    IN  IF /\ LitAtCI(s, k1, upper(col))
           /\ k4 <= Len(s) /\ s[k4] = "="
           /\ DigitsEnd(s, k5) > k5
        THEN k5 ELSE 0

\* the whole pattern matched at i: with the optional (?:\w+\.) first, then without it
CoerceMatchAt(s, i, col) ==
    LET e == WordRunEnd(s, i)
        qualified == IF e > i /\ e <= Len(s) /\ s[e] = "." THEN CoerceTailAt(s, e + 1, col) ELSE 0
    IN  IF qualified > 0 THEN qualified ELSE CoerceTailAt(s, i, col)

\* re.sub(pattern, lambda m: f"{m.group(1)}'{m.group(2)}'", sql) for one column
RECURSIVE CoerceSubFrom(_, _, _)
CoerceSubFrom(s, i, col) ==
    IF i > Len(s) THEN <<>>
    ELSE LET d == CoerceMatchAt(s, i, col)
             e == DigitsEnd(s, d)
         IN  IF d > 0
             THEN SubSeq(s, i, d - 1) \o <<"'">> \o SubSeq(s, d, e - 1) \o <<"'">>
                      \o CoerceSubFrom(s, e, col)
             ELSE <<s[i]>> \o CoerceSubFrom(s, i + 1, col)

\* the inner loop: the columns of one table, from the c-th on
RECURSIVE CoerceColumnsFrom(_, _, _)
CoerceColumnsFrom(sql, cols, c) ==
    IF c > Len(cols) THEN sql
    ELSE CoerceColumnsFrom(
             IF _sqltype_kind(cols[c].type) \in {"text", "bool"}
             THEN CoerceSubFrom(sql, 1, cols[c].name) ELSE sql,
             cols, c + 1)

\* the outer loop: the tables of the schema, from the t-th on
RECURSIVE CoerceTablesFrom(_, _, _)
CoerceTablesFrom(sql, schema, t) ==
    IF t > Len(schema) THEN sql
    ELSE CoerceTablesFrom(CoerceColumnsFrom(sql, schema[t].columns, 1), schema, t + 1)

coerce_numeric_string_literals(sql, schema) == CoerceTablesFrom(sql, schema, 1)

(***************************************************************************)
(* Statements are built from a head and at most a bounded number of        *)
(* fragments, so that the keywords, identifiers, quotes and parentheses    *)
(* the functions look at occur in every order.                             *)
(***************************************************************************)
\* all the sequences over S of length at most n
RECURSIVE SeqsUpTo(_, _)
SeqsUpTo(S, n) ==
    IF n = 0 THEN {<<>>}
    ELSE LET shorter == SeqsUpTo(S, n - 1)
         IN  shorter \cup {Append(q, x) : q \in {r \in shorter : Len(r) = n - 1}, x \in S}

\* the concatenation of a sequence of strings
RECURSIVE Concat(_)
Concat(parts) ==
    IF parts = <<>> THEN <<>> ELSE Head(parts) \o Concat(Tail(parts))

\* no request is being handled
IdleAsk ==
    /\ tables = <<>> /\ limit = <<>> /\ raw_sql = <<>> /\ sql_clean = <<>>
    /\ sql_replaced = <<>> /\ sql_final = <<>> /\ response = <<>>
    /\ executed = <<>> /\ calls = <<>>

\* the harness has the result of the call it names
Returned(name) == name \in DOMAIN ret

AskVars == <<tables, limit, raw_sql, sql_clean, sql_replaced, sql_final,
             response, executed, calls>>

CacheVars == <<_VECTOR_VOCAB, _COLUMN_VECTORS, _COLUMN_NAMES, cache_log>>

\* the module-level caches as the import of semantic_columns leaves them
EmptyCache ==
    /\ _VECTOR_VOCAB = <<>>
    /\ _COLUMN_VECTORS = [id |-> 1, items |-> <<>>]
    /\ _COLUMN_NAMES = <<>>
    /\ cache_log = <<>>

(***************************************************************************)
(* The guard functions called directly, as src/tests/test_guard.py does    *)
(***************************************************************************)
MaxWhitelistFrags == 3

TableA == <<"A">>
TableB == <<"B">>
TableX == <<"X">>

WhitelistHead == <<"S","E","L","E","C","T"," ","*">>

\* FROM and JOIN clauses, in both cases, with bare, quoted and qualified names
WhitelistClauses ==
    { <<" ","F","R","O","M"," ","A">>,
      <<" ","f","r","o","m","\n","X">>,
      <<" ","J","O","I","N"," ","\"","S","\"",".","B">>,
      <<" ","j","o","i","n"," ","s",".","X">> }

Parenthesized(f) == <<" ","(">> \o f \o <<")">>

\* a clause, a clause in parentheses, or one parenthesis of a pair around other fragments
WhitelistFrags ==
    WhitelistClauses \cup {Parenthesized(f) : f \in WhitelistClauses}
        \cup {<<" ","(">>, <<")">>}

WhitelistStatements ==
    {WhitelistHead \o Concat(f) : f \in SeqsUpTo(WhitelistFrags, MaxWhitelistFrags)}

\* the allowed lists whitelist_ok is called with, and the table a wider list adds
WhitelistAllowed == {<<TableA>>, <<TableB, TableA>>}
WhitelistExtra == {TableX}

InitWhitelist ==
    /\ pc = "call"
    /\ arg \in [sql : WhitelistStatements, allowed : WhitelistAllowed, extra : WhitelistExtra]
    /\ ret = <<>>
    /\ IdleAsk
    /\ EmptyCache

\* whitelist_ok(sql, allowed)
CallWhitelistOk ==
    /\ pc = "call" /\ ~Returned("wl")
    /\ ret' = ret @@ ("wl" :> whitelist_ok(arg.sql, arg.allowed))
    /\ UNCHANGED <<pc, arg, AskVars, CacheVars>>

\* whitelist_ok(sql, allowed + [extra])
CallWhitelistOkWider ==
    /\ pc = "call" /\ Returned("wl")
    /\ ret' = ret @@ ("wider" :> whitelist_ok(arg.sql, Append(arg.allowed, arg.extra)))
    /\ pc' = "done"
    /\ UNCHANGED <<arg, AskVars, CacheVars>>

NextWhitelist == CallWhitelistOk \/ CallWhitelistOkWider

SpecWhitelist == InitWhitelist /\ [][NextWhitelist]_vars

MaxReadOnlyFrags == 3

ReadOnlyHeads ==
    { <<"S","E","L","E","C","T"," ","*">>,
      <<"\n"," ","s","e","l","e","c","t"," ","a">>,
      <<"D","R","O","P"," ","T","A","B","L","E"," ","X">> }

ReadOnlyWords ==
    { <<" ","D","r","o","p">>,
      <<" ","U","P","D","A","T","E","D">>,
      <<" ","x">> }

ReadOnlyFrags ==
    ReadOnlyWords \cup {Parenthesized(f) : f \in ReadOnlyWords}
        \cup {<<" ","(">>, <<")">>, <<";">>}

ReadOnlyStatements ==
    {h \o Concat(f) : h \in ReadOnlyHeads, f \in SeqsUpTo(ReadOnlyFrags, MaxReadOnlyFrags)}

InitReadOnly ==
    /\ pc = "call"
    /\ arg \in [sql : ReadOnlyStatements]
    /\ ret = <<>>
    /\ IdleAsk
    /\ EmptyCache

\* is_select_only(sql)
CallIsSelectOnly ==
    /\ pc = "call" /\ ~Returned("ro")
    /\ ret' = ret @@ ("ro" :> is_select_only(arg.sql))
    /\ UNCHANGED <<pc, arg, AskVars, CacheVars>>

\* is_select_only_tol(sql), the variant app.py defines
CallIsSelectOnlyTol ==
    /\ pc = "call" /\ Returned("ro")
    /\ ret' = ret @@ ("tol" :> is_select_only_tol(arg.sql))
    /\ pc' = "done"
    /\ UNCHANGED <<arg, AskVars, CacheVars>>

NextReadOnly == CallIsSelectOnly \/ CallIsSelectOnlyTol

SpecReadOnly == InitReadOnly /\ [][NextReadOnly]_vars

(***************************************************************************)
(* What the claims say about a statement, stated on the text itself        *)
(***************************************************************************)
\* index of the ")" that closes the "(" at index i, 0 when nothing closes it
RECURSIVE CloseFrom(_, _, _)
CloseFrom(s, j, depth) ==
    IF j > Len(s) THEN 0
    ELSE IF s[j] = ")" THEN (IF depth = 1 THEN j ELSE CloseFrom(s, j + 1, depth - 1))
    ELSE IF s[j] = "(" THEN CloseFrom(s, j + 1, depth + 1)
    ELSE CloseFrom(s, j + 1, depth)

\* index p lies inside a balanced pair of parentheses
Enclosed(s, p) ==
    \E i \in 1..(p - 1) : s[i] = "(" /\ CloseFrom(s, i + 1, 1) > p

\* a FROM or JOIN keyword starts at index i and an identifier follows it
NamesTableAt(s, i) ==
    /\ WordBoundary(s, i)
    /\ LitAtCI(s, i, FROM) \/ LitAtCI(s, i, JOIN)
    /\ SkipSpaces(s, i + 4) > i + 4
    /\ IdentEnd(s, SkipSpaces(s, i + 4)) > SkipSpaces(s, i + 4)

\* the identifier that follows the keyword at index i
NameAfter(s, i) ==
    SubSeq(s, SkipSpaces(s, i + 4), IdentEnd(s, SkipSpaces(s, i + 4)) - 1)

\* the normalized name: quotes stripped, last dot-segment
NormalizedName(name) ==
    LET bare == SelectSeq(name, LAMBDA c : c # "\"")
        dots == {k \in 1..Len(bare) : bare[k] = "."}
        last == IF dots = {} THEN 0 ELSE CHOOSE k \in dots : \A d \in dots : d <= k
    IN  Drop(bare, last + 1)

\* the statement names, at any depth, a table that is not in the list
NamesUnlistedTable(s, allowed) ==
    \E i \in 1..Len(s) :
        NamesTableAt(s, i) /\ NormalizedName(NameAfter(s, i)) \notin Range(allowed)

\* the statement names, outside every balanced pair of parentheses, a table not in the list
NamesUnlistedTableOutside(s, allowed) ==
    \E i \in 1..Len(s) :
        /\ NamesTableAt(s, i)
        /\ ~Enclosed(s, i)
        /\ NormalizedName(NameAfter(s, i)) \notin Range(allowed)

(***************************************************************************)
(* C1                                                                      *)
(***************************************************************************)
\* C1, as claimed: a statement that names after FROM or JOIN, at any nesting depth, a table
\* whose normalized name is not in the allowed list makes whitelist_ok return False.
C1_AnyDepthRejected ==
    Returned("wl") /\ NamesUnlistedTable(arg.sql, arg.allowed) => ret.wl = FALSE

\* C1, amended: a statement that names after FROM or JOIN, outside every balanced pair of
\* parentheses, a table whose normalized name is not in the allowed list makes
\* whitelist_ok return False.
C1_OutsideParensRejected ==
    Returned("wl") /\ NamesUnlistedTableOutside(arg.sql, arg.allowed) => ret.wl = FALSE

\* whitelist_ok has rejected a statement whose unlisted table follows a lower-case join,
\* qualified by a schema, while a listed table stands in a parenthesized clause
C1_Witness ==
    /\ Returned("wl")
    /\ ret.wl = FALSE
    /\ NamesUnlistedTableOutside(arg.sql, arg.allowed)
    /\ \E i \in 1..Len(arg.sql) :
           /\ NamesTableAt(arg.sql, i) /\ Enclosed(arg.sql, i)
           /\ NormalizedName(NameAfter(arg.sql, i)) \in Range(arg.allowed)
    /\ \E i \in 1..Len(arg.sql) :
           /\ LitAt(arg.sql, i, <<"j","o","i","n">>) /\ ~Enclosed(arg.sql, i)
           /\ NameAfter(arg.sql, i) = <<"s",".","X">>

(***************************************************************************)
(* C8                                                                      *)
(***************************************************************************)
\* C8: whitelist_ok is monotonic in the allowed list: a statement accepted with a list is
\* accepted with the list extended by one more table.
C8_WhitelistMonotonic ==
    Returned("wl") /\ Returned("wider") /\ ret.wl = TRUE => ret.wider = TRUE

\* a statement that names tables outside parentheses was accepted with the list and with
\* the list extended by a table it did not hold
C8_Witness ==
    /\ Returned("wl") /\ Returned("wider")
    /\ \E i \in 1..Len(arg.sql) : NamesTableAt(arg.sql, i) /\ ~Enclosed(arg.sql, i)
    /\ arg.extra \notin Range(arg.allowed)
    /\ ret.wl = TRUE /\ ret.wider = TRUE

(***************************************************************************)
(* C2                                                                      *)
(***************************************************************************)
\* the whitespace-trimmed, upper-cased text starts with SELECT
TrimmedStartsWithSelect(s) ==
    \E k \in 0..Len(s) :
        /\ \A j \in 1..k : IsSpace(s[j])
        /\ k + 6 <= Len(s)
        /\ \A j \in 1..6 : UpperChar(s[k + j]) = SELECT[j]

\* a banned keyword occurs as a whole word outside every balanced pair of parentheses
BannedWordOutside(s) ==
    \E i \in 1..Len(s) : \E w \in DDL_DML_WORDS : WordAtCI(s, i, w) /\ ~Enclosed(s, i)

\* a banned keyword occurs as a whole word
BannedWord(s) ==
    \E i \in 1..Len(s) : \E w \in DDL_DML_WORDS : WordAtCI(s, i, w)

DropTableX == <<"D","R","O","P"," ","T","A","B","L","E"," ","X",";">>

\* C2: a statement is_select_only accepts starts, once trimmed and upper-cased, with
\* SELECT and has no banned keyword as a whole word outside parentheses; DROP TABLE X;
\* is rejected.
C2_AcceptedIsSelectWithoutBanned ==
    Returned("ro") =>
        /\ ret.ro = TRUE =>
               TrimmedStartsWithSelect(arg.sql) /\ ~BannedWordOutside(arg.sql)
        /\ arg.sql = DropTableX => ret.ro = FALSE

\* is_select_only has accepted a lower-case select behind leading whitespace that holds
\* UPDATED, which is no whole banned word
C2_Witness ==
    /\ Returned("ro") /\ ret.ro = TRUE
    /\ IsSpace(arg.sql[1])
    /\ \E i \in 1..Len(arg.sql) : LitAt(arg.sql, i, <<"U","P","D","A","T","E","D">>)

(***************************************************************************)
(* ensure_limit called directly                                            *)
(***************************************************************************)
MaxLimitFrags == 3

LimitHead == <<"S","E","L","E","C","T"," ","1">>

\* trailing characters, LIMIT clauses in both cases, and words that only look like one
LimitFrags ==
    { <<" ">>, <<";">>, <<"\n">>, <<"\t">>,
      <<" ","L","I","M","I","T"," ","9">>,
      <<" ","l","i","m","i","t","\n","1","0">>,
      <<" ","L","I","M","I","T"," ","x">>,
      <<" ","u","n","l","i","m","i","t"," ","5">> }

LimitStatements ==
    {LimitHead \o Concat(f) : f \in SeqsUpTo(LimitFrags, MaxLimitFrags)}

\* the default of guard.ensure_limit and of AskPayload.limit
DefaultLimit == 5000

LimitDefaults == {0 - 3, 0, 7, 40, DefaultLimit}

InitLimit ==
    /\ pc = "call"
    /\ arg \in [sql : LimitStatements, n : LimitDefaults]
    /\ ret = <<>>
    /\ IdleAsk
    /\ EmptyCache

\* ensure_limit(sql, n)
CallEnsureLimit ==
    /\ pc = "call" /\ ~Returned("once")
    /\ ret' = ret @@ ("once" :> ensure_limit(arg.sql, arg.n))
    /\ UNCHANGED <<pc, arg, AskVars, CacheVars>>

\* ensure_limit(ensure_limit(sql, n), n)
CallEnsureLimitAgain ==
    /\ pc = "call" /\ Returned("once")
    /\ ret' = ret @@ ("twice" :> ensure_limit(ret.once, arg.n))
    /\ pc' = "done"
    /\ UNCHANGED <<arg, AskVars, CacheVars>>

NextLimit == CallEnsureLimit \/ CallEnsureLimitAgain

SpecLimit == InitLimit /\ [][NextLimit]_vars

\* the statement holds LIMIT, in any case and as the start of a word, then whitespace and a digit
HasLimitClause(s) ==
    \E i \in 1..Len(s) : \E j \in (i + 6)..Len(s) :
        /\ \A k \in 1..5 : UpperChar(s[i + k - 1]) = LIMIT[k]
        /\ i = 1 \/ ~IsWordChar(s[i - 1])
        /\ \A k \in (i + 5)..(j - 1) : IsSpace(s[k])
        /\ IsDigit(s[j])

\* the value of a decimal numeral with an optional sign, -1 when d is no numeral
RECURSIVE DigitsValue(_, _)
DigitsValue(d, acc) ==
    IF d = <<>> THEN acc
    ELSE DigitsValue(Tail(d),
             10 * acc + ((CHOOSE k \in 1..10 : DigitChars[k] = Head(d)) - 1))

IsNumeralOf(d, n) ==
    LET digits == IF d # <<>> /\ Head(d) = "-" THEN Tail(d) ELSE d
    IN  /\ digits # <<>>
        /\ \A k \in 1..Len(digits) : IsDigit(digits[k])
        /\ (Len(digits) > 1 => digits[1] # "0")
        /\ (d[1] = "-") = (n < 0)
        /\ DigitsValue(digits, 0) = (IF n < 0 THEN 0 - n ELSE n)

\* out is body, then " LIMIT ", the numeral of n and ";"
IsLimited(out, body, n) ==
    /\ Len(out) > Len(body) + 8
    /\ SubSeq(out, 1, Len(body)) = body
    /\ SubSeq(out, Len(body) + 1, Len(body) + 7) = <<" ","L","I","M","I","T"," ">>
    /\ out[Len(out)] = ";"
    /\ IsNumeralOf(SubSeq(out, Len(body) + 8, Len(out) - 1), n)

\* body is s without the characters of chars that end it
IsTrimmedOf(body, s, chars) ==
    /\ Len(body) <= Len(s)
    /\ body = SubSeq(s, 1, Len(body))
    /\ \A k \in (Len(body) + 1)..Len(s) : s[k] \in chars
    /\ body # <<>> => body[Len(body)] \notin chars

(***************************************************************************)
(* C6                                                                      *)
(***************************************************************************)
\* C6, as claimed: ensure_limit returns a statement with a LIMIT <integer> clause
\* unchanged, and any other statement with all its trailing whitespace (spaces, tabs,
\* newlines) and semicolons removed, followed by ' LIMIT n;'.
C6_TrailingWhitespaceRemoved ==
    Returned("once") =>
        IF HasLimitClause(arg.sql) THEN ret.once = arg.sql
        ELSE \E k \in 0..Len(arg.sql) :
                 /\ IsTrimmedOf(SubSeq(arg.sql, 1, k), arg.sql, SpaceChars \cup {";"})
                 /\ IsLimited(ret.once, SubSeq(arg.sql, 1, k), arg.n)

\* C6, amended: ensure_limit returns a statement with a LIMIT <integer> clause unchanged,
\* and any other statement with its trailing spaces and semicolons removed (a trailing
\* tab or newline stays, and stops the removal), followed by ' LIMIT n;'.
C6_TrailingSpacesRemoved ==
    Returned("once") =>
        IF HasLimitClause(arg.sql) THEN ret.once = arg.sql
        ELSE \E k \in 0..Len(arg.sql) :
                 /\ IsTrimmedOf(SubSeq(arg.sql, 1, k), arg.sql, {" ", ";"})
                 /\ IsLimited(ret.once, SubSeq(arg.sql, 1, k), arg.n)

\* ensure_limit has appended the default limit to a statement that ended with a
\* semicolon and a space
C6_Witness ==
    /\ Returned("once")
    /\ ~HasLimitClause(arg.sql)
    /\ arg.n = DefaultLimit
    /\ Len(arg.sql) > Len(LimitHead) + 1
    /\ arg.sql[Len(arg.sql)] = " " /\ arg.sql[Len(arg.sql) - 1] = ";"
    /\ ret.once = LimitHead \o <<" ","L","I","M","I","T"," ","5","0","0","0",";">>

(***************************************************************************)
(* C7                                                                      *)
(***************************************************************************)
\* C7, as claimed: ensure_limit is idempotent for every statement and every integer n.
C7_IdempotentForEveryInteger ==
    Returned("twice") => ret.twice = ret.once

\* C7, amended: ensure_limit is idempotent for every statement and every integer n >= 0.
C7_IdempotentForNaturals ==
    Returned("twice") /\ arg.n >= 0 => ret.twice = ret.once

\* ensure_limit has been applied twice to a statement without a LIMIT clause, and the
\* second application changed nothing
C7_Witness ==
    /\ Returned("twice")
    /\ arg.n >= 0
    /\ ~HasLimitClause(arg.sql)
    /\ ret.once # arg.sql
    /\ ret.twice = ret.once

(***************************************************************************)
(* replace_handles_with_tables called directly                             *)
(***************************************************************************)
MaxHandleItems == 3

T1 == <<"T","1">>
T2 == <<"T","2">>
T3 == <<"T","3">>
T10 == <<"T","1","0">>
XT1 == <<"X","T","1">>
T1_A == <<"T","1","_","A">>

\* a word of the statement with the punctuation before and after it; pre is never empty,
\* so two words never touch
HandleItems ==
    { [pre |-> <<" ">>,      word |-> T1,     post |-> <<>>],
      [pre |-> <<",">>,      word |-> T2,     post |-> <<".","i","d">>],
      [pre |-> <<" ">>,      word |-> T3,     post |-> <<>>],
      [pre |-> <<" ">>,      word |-> T10,    post |-> <<>>],
      [pre |-> <<" ">>,      word |-> XT1,    post |-> <<>>],
      [pre |-> <<" ">>,      word |-> T1_A,   post |-> <<>>],
      [pre |-> <<" ","\"">>, word |-> T1,     post |-> <<"\"">>],
      [pre |-> <<" ">>,      word |-> TableA, post |-> <<>>],
      [pre |-> <<" ","\"">>, word |-> TableB, post |-> <<"\"">>] }

\* the text of a sequence of items
RECURSIVE Render(_)
Render(items) ==
    IF items = <<>> THEN <<>>
    ELSE Head(items).pre \o Head(items).word \o Head(items).post \o Render(Tail(items))

\* Candidate Sets: plain names, and a table whose name is itself a handle
HandleCandidateSets ==
    { <<TableA>>, <<TableB, TableA>>, <<T2, TableB>>, <<TableA, T1>> }

InitHandles ==
    /\ pc = "call"
    /\ arg \in [items : SeqsUpTo(HandleItems, MaxHandleItems), tables : HandleCandidateSets]
    /\ ret = <<>>
    /\ IdleAsk
    /\ EmptyCache

\* the statement with each table name of the Candidate Set written as its handle
WithHandles(items, tbls) ==
    [k \in 1..Len(items) |->
        IF \E i \in 1..Len(tbls) : items[k].word = tbls[i]
        THEN [items[k] EXCEPT !.word = Handle(CHOOSE i \in 1..Len(tbls) : items[k].word = tbls[i])]
        ELSE items[k]]

\* replace_handles_with_tables(sql, tables)
CallReplaceHandles ==
    /\ pc = "call" /\ ~Returned("resolved")
    /\ ret' = ret @@ ("resolved" :> replace_handles_with_tables(Render(arg.items), arg.tables))
    /\ UNCHANGED <<pc, arg, AskVars, CacheVars>>

\* replace_handles_with_tables on the statement written with handles
CallReplaceHandlesRoundTrip ==
    /\ pc = "call" /\ Returned("resolved")
    /\ ret' = ret @@ ("back" :> replace_handles_with_tables(
                                    Render(WithHandles(arg.items, arg.tables)), arg.tables))
    /\ pc' = "done"
    /\ UNCHANGED <<arg, AskVars, CacheVars>>

NextHandles == CallReplaceHandles \/ CallReplaceHandlesRoundTrip

SpecHandles == InitHandles /\ [][NextHandles]_vars

\* the word is the handle of a position of the Candidate Set
IsHandleOf(word, tbls) == \E i \in 1..Len(tbls) : word = Handle(i)

\* the statement with each whole-word handle of the Candidate Set written as the table
\* name at its position, and every other word kept
Resolved(items, tbls) ==
    [k \in 1..Len(items) |->
        IF IsHandleOf(items[k].word, tbls)
        THEN [items[k] EXCEPT !.word = tbls[CHOOSE i \in 1..Len(tbls) : items[k].word = Handle(i)]]
        ELSE items[k]]

\* a table name is the handle of a later position of the Candidate Set
NameIsLaterHandle(tbls) ==
    \E i \in 1..Len(tbls) : \E j \in (i + 1)..Len(tbls) : tbls[i] = Handle(j)

(***************************************************************************)
(* C9                                                                      *)
(***************************************************************************)
\* C9, as claimed: a statement written with the real table names, rewritten with the
\* handles in their place and given to the Handle Resolver, comes back as the original
\* text.
C9_RoundTrip ==
    Returned("back") => ret.back = Render(arg.items)

\* C9, amended: the round trip gives back the original text when no whole word of the
\* original statement is itself a handle of the Candidate Set.
C9_RoundTripWithoutHandleWords ==
    Returned("back") /\ (\A k \in 1..Len(arg.items) : ~IsHandleOf(arg.items[k].word, arg.tables))
        => ret.back = Render(arg.items)

\* a statement naming both tables of a Candidate Set of two, one of them quoted, went
\* through the handles and came back
C9_Witness ==
    /\ Returned("back")
    /\ Len(arg.tables) = 2
    /\ \A k \in 1..Len(arg.items) : ~IsHandleOf(arg.items[k].word, arg.tables)
    /\ \E k \in 1..Len(arg.items) : arg.items[k].word = arg.tables[1]
    /\ \E k \in 1..Len(arg.items) : arg.items[k].word = arg.tables[2]
    /\ Render(WithHandles(arg.items, arg.tables)) # Render(arg.items)
    /\ ret.back = Render(arg.items)

(***************************************************************************)
(* C10                                                                     *)
(***************************************************************************)
\* C10, as claimed: each whole-word or quoted handle Ti, i up to the size of the
\* Candidate Set, becomes the table name at position i; a handle inside a longer
\* identifier and a handle with a larger index stay.
C10_WholeWordHandlesResolved ==
    Returned("resolved") => ret.resolved = Render(Resolved(arg.items, arg.tables))

\* C10, amended: the same, for a Candidate Set in which no table name is itself the
\* handle of a later position.
C10_WholeWordHandlesResolvedNoChain ==
    Returned("resolved") /\ ~NameIsLaterHandle(arg.tables)
        => ret.resolved = Render(Resolved(arg.items, arg.tables))

\* the resolver has replaced a quoted T1 and left T10, XT1 or T1_A and a handle above
\* the size of the Candidate Set
C10_Witness ==
    /\ Returned("resolved")
    /\ ~NameIsLaterHandle(arg.tables)
    /\ \E k \in 1..Len(arg.items) :
           arg.items[k].word = T1 /\ arg.items[k].post = <<"\"">>
    /\ \E k \in 1..Len(arg.items) : arg.items[k].word \in {T10, XT1, T1_A}
    /\ \E k \in 1..Len(arg.items) :
           arg.items[k].word \in {T2, T3} /\ ~IsHandleOf(arg.items[k].word, arg.tables)
    /\ ret.resolved # Render(arg.items)
    /\ ret.resolved = Render(Resolved(arg.items, arg.tables))

(***************************************************************************)
(* clean_sql_output called directly                                        *)
(***************************************************************************)
MaxExtractFrags == 3

\* the fence markers a model puts around its answer
FenceFrags == {FENCE_sql \o <<"\n">>, FENCE_SQL, FENCE}

\* prose, statements, statement pieces, terminators and whitespace
TextFrags ==
    { <<"S","o","r","r","y",".">>,
      <<"D","R","O","P"," ","T","A","B","L","E"," ","X">>,
      <<"S","E","L","E","C","T"," ","1">>,
      <<"s","e","l","e","c","t"," ","a">>,
      <<"S","E","L">>,
      <<"E","C","T"," ","2">>,
      <<";">>,
      <<"\n">> }

ExtractFrags == FenceFrags \cup TextFrags

InitExtract ==
    /\ pc = "call"
    /\ arg \in [frags : SeqsUpTo(ExtractFrags, MaxExtractFrags)]
    /\ ret = <<>>
    /\ IdleAsk
    /\ EmptyCache

\* clean_sql_output(raw)
CallCleanSqlOutput ==
    /\ pc = "call"
    /\ ret' = ret @@ ("clean" :> clean_sql_output(Concat(arg.frags)))
    /\ pc' = "done"
    /\ UNCHANGED <<arg, AskVars, CacheVars>>

NextExtract == CallCleanSqlOutput

SpecExtract == InitExtract /\ [][NextExtract]_vars

\* SELECT occurs in the text, in any case
ContainsSelect(s) ==
    \E i \in 1..Len(s) : \A k \in 1..6 : i + k - 1 <= Len(s) /\ UpperChar(s[i + k - 1]) = SELECT[k]

\* the text without its fence markers; of the marker that ends with \n the \n stays
WithoutFences(frags) ==
    Concat([k \in 1..Len(frags) |->
               IF frags[k] = FENCE_sql \o <<"\n">> THEN <<"\n">>
               ELSE IF frags[k] \in FenceFrags THEN <<>>
               ELSE frags[k]])

\* out is s without the whitespace around it
IsStripOf(out, s) ==
    \E a \in 1..(Len(s) + 1) : \E b \in (a - 1)..Len(s) :
        /\ out = SubSeq(s, a, b)
        /\ \A k \in 1..(a - 1) : IsSpace(s[k])
        /\ \A k \in (b + 1)..Len(s) : IsSpace(s[k])
        /\ out # <<>> => ~IsSpace(out[1]) /\ ~IsSpace(out[Len(out)])

(***************************************************************************)
(* C5                                                                      *)
(***************************************************************************)
\* C5, as claimed: for a model output without any SELECT, clean_sql_output returns the
\* empty string.
C5_NoSelectGivesEmpty ==
    Returned("clean") /\ ~ContainsSelect(Concat(arg.frags)) => ret.clean = <<>>

\* C5, amended: for a model output that holds no SELECT once its fence markers are
\* removed, clean_sql_output returns the output without its fence markers and without
\* the whitespace around it; that is the empty string only when nothing else was there.
C5_NoSelectGivesTrimmedText ==
    Returned("clean") /\ ~ContainsSelect(WithoutFences(arg.frags))
        => IsStripOf(ret.clean, WithoutFences(arg.frags))

\* clean_sql_output was given a fenced DROP statement and returned it without the fences
C5_Witness ==
    /\ Returned("clean")
    /\ ~ContainsSelect(WithoutFences(arg.frags))
    /\ \E k \in 1..Len(arg.frags) : arg.frags[k] \in FenceFrags
    /\ ret.clean = <<"D","R","O","P"," ","T","A","B","L","E"," ","X",";">>

(***************************************************************************)
(* C11                                                                     *)
(***************************************************************************)
\* SELECT, in any case, occurs in s at index p
SelectAt(s, p) ==
    p >= 1 /\ p + 5 <= Len(s) /\ \A k \in 1..6 : UpperChar(s[p + k - 1]) = SELECT[k]

\* p is where the first SELECT of s starts
IsFirstSelect(s, p) == SelectAt(s, p) /\ \A k \in 1..(p - 1) : ~SelectAt(s, k)

\* q is where the first semicolon after the SELECT at p is
IsFirstSemicolonAfter(s, p, q) ==
    /\ q \in (p + 6)..Len(s)
    /\ s[q] = ";"
    /\ \A k \in (p + 6)..(q - 1) : s[k] # ";"

\* C11: for a model output that contains SELECT, clean_sql_output returns, of the output
\* without its fence markers, the span from the first SELECT (in any case) up to and
\* including the first semicolon after it; without such a semicolon it returns everything
\* from the first SELECT to the end, trimmed, and appends no terminator; what precedes the
\* first SELECT is dropped.
C11_SpanFromFirstSelect ==
    Returned("clean") /\ ContainsSelect(Concat(arg.frags)) =>
        LET s == WithoutFences(arg.frags)
        IN  \E p \in 1..Len(s) :
                /\ IsFirstSelect(s, p)
                /\ IF \E q \in 1..Len(s) : IsFirstSemicolonAfter(s, p, q)
                   THEN \E q \in 1..Len(s) :
                            IsFirstSemicolonAfter(s, p, q) /\ ret.clean = SubSeq(s, p, q)
                   ELSE IsStripOf(ret.clean, SubSeq(s, p, Len(s)))

\* clean_sql_output was given prose, then a statement, then a terminator, and returned
\* the statement with its terminator, without the prose
C11_Witness ==
    /\ Returned("clean")
    /\ arg.frags = << <<"S","o","r","r","y",".">>, <<"S","E","L","E","C","T"," ","1">>, <<";">> >>
    /\ ret.clean = <<"S","E","L","E","C","T"," ","1",";">>

\* clean_sql_output was given a fenced statement without terminator and returned it from
\* its SELECT to its end, trimmed
C11_WitnessNoTerminator ==
    /\ Returned("clean")
    /\ arg.frags = <<FENCE_sql \o <<"\n">>, <<"s","e","l","e","c","t"," ","a">>, <<"\n">> >>
    /\ ret.clean = <<"s","e","l","e","c","t"," ","a">>

(***************************************************************************)
(* coerce_numeric_string_literals called directly, as                      *)
(* src/tests/test_literal_coercion.py does                                 *)
(***************************************************************************)
MaxCoerceItems == 2

ColF == <<"F">>
ColN == <<"N">>
ColXF == <<"X","F">>
ColD == <<"D">>

\* comparisons: the left side is pre, col, post; then the operator and the literal
CoerceItems ==
    { [pre |-> <<>>, col |-> ColF, post |-> <<>>, op |-> <<" ","="," ">>, lit |-> <<"1">>],
      [pre |-> <<"t",".","\"">>, col |-> <<"f">>, post |-> <<"\"">>, op |-> <<"=">>,
       lit |-> <<"2","0">>],
      [pre |-> <<>>, col |-> ColN, post |-> <<>>, op |-> <<" ","="," ">>, lit |-> <<"1">>],
      [pre |-> <<>>, col |-> ColXF, post |-> <<>>, op |-> <<" ","="," ">>, lit |-> <<"1">>],
      [pre |-> <<>>, col |-> ColF, post |-> <<>>, op |-> <<" ","<"," ">>, lit |-> <<"1">>],
      [pre |-> <<>>, col |-> ColF, post |-> <<>>, op |-> <<" ",">"," ">>, lit |-> <<"1">>],
      [pre |-> <<>>, col |-> ColF, post |-> <<>>, op |-> <<" ","<","="," ">>, lit |-> <<"1">>],
      [pre |-> <<>>, col |-> ColF, post |-> <<>>, op |-> <<" ",">","="," ">>, lit |-> <<"1">>],
      [pre |-> <<>>, col |-> ColF, post |-> <<>>, op |-> <<" ","!","="," ">>, lit |-> <<"1">>],
      [pre |-> <<>>, col |-> ColF, post |-> <<>>, op |-> <<" ","<",">"," ">>, lit |-> <<"1">>],
      [pre |-> <<>>, col |-> ColF, post |-> <<>>, op |-> <<" ","="," ">>, lit |-> <<"-","1">>],
      [pre |-> <<>>, col |-> ColF, post |-> <<>>, op |-> <<" ","="," ">>,
       lit |-> <<"1",".","5">>],
      [pre |-> <<"E","X","T","R","A","C","T","(","Y","E","A","R"," ","F","R","O","M"," ">>,
       col |-> ColD, post |-> <<")">>, op |-> <<" ","="," ">>, lit |-> <<"2","0","1","4">>] }

CoerceHead == <<"S","E","L","E","C","T"," ","*"," ","F","R","O","M"," ","A">>

\* the text of a comparison
ComparisonText(c) == c.pre \o c.col \o c.post \o c.op \o c.lit

\* the statement: the head, then the comparisons after WHERE and AND
RECURSIVE ConditionsFrom(_, _)
ConditionsFrom(items, k) ==
    IF k > Len(items) THEN <<>>
    ELSE (IF k = 1 THEN <<" ","W","H","E","R","E"," ">> ELSE <<" ","A","N","D"," ">>)
             \o ComparisonText(items[k]) \o ConditionsFrom(items, k + 1)

StatementOf(items) == CoerceHead \o ConditionsFrom(items, 1)

Column(n, t) == [name |-> n, type |-> t]
VARCHAR == <<"V","A","R","C","H","A","R">>
NUMBERTYPE == <<"N","U","M","B","E","R">>
DATETYPE == <<"D","A","T","E">>
BOOLEANTYPE == <<"B","O","O","L","E","A","N">>

\* schemas: F text beside number columns; F bool in another table than the number column
\* XF; no text or bool column at all; the date column of the function call typed as text
CoerceCatalogs ==
    { << [name |-> TableA,
          columns |-> <<Column(ColF, VARCHAR), Column(ColN, NUMBERTYPE), Column(ColD, DATETYPE)>>] >>,
      << [name |-> TableA, columns |-> <<Column(ColXF, NUMBERTYPE), Column(ColD, DATETYPE)>>],
         [name |-> TableB, columns |-> <<Column(ColF, BOOLEANTYPE)>>] >>,
      << [name |-> TableA,
          columns |-> <<Column(ColN, NUMBERTYPE), Column(ColD, DATETYPE), Column(ColF, NUMBERTYPE)>>] >>,
      << [name |-> TableA, columns |-> <<Column(ColD, VARCHAR), Column(ColF, <<"t","e","x","t">>)>>] >> }

InitCoerce ==
    /\ pc = "call"
    /\ arg \in [items : SeqsUpTo(CoerceItems, MaxCoerceItems), schema : CoerceCatalogs]
    /\ ret = <<>>
    /\ IdleAsk
    /\ EmptyCache

\* coerce_numeric_string_literals(sql, schema)
CallCoerce ==
    /\ pc = "call"
    /\ ret' = ret @@ ("coerced" :>
                         coerce_numeric_string_literals(StatementOf(arg.items), arg.schema))
    /\ pc' = "done"
    /\ UNCHANGED <<arg, AskVars, CacheVars>>

NextCoerce == CallCoerce

SpecCoerce == InitCoerce /\ [][NextCoerce]_vars

\* the kinds of the columns of the schema that have this name, in any case
KindsOf(name, schema) ==
    UNION { {_sqltype_kind(schema[t].columns[c].type) :
                c \in {c \in 1..Len(schema[t].columns) :
                          upper(schema[t].columns[c].name) = upper(name)}} :
            t \in 1..Len(schema) }

\* the left side of the comparison is a column, bare, double-quoted or table-qualified
IsColumnReference(c) ==
    /\ c.pre \in {<<>>, <<"\"">>, <<"t",".">>, <<"t",".","\"">>}
    /\ c.post \in {<<>>, <<"\"">>}

IsUnsignedInteger(lit) == lit # <<>> /\ \A k \in 1..Len(lit) : IsDigit(lit[k])

IsEquality(op) == SelectSeq(op, LAMBDA ch : ~IsSpace(ch)) = <<"=">>

\* the comparison has the shape <column> = <unsigned integer> on a text or bool column
IsCoercible(c, schema) ==
    /\ IsColumnReference(c)
    /\ KindsOf(c.col, schema) \cap {"text", "bool"} # {}
    /\ IsEquality(c.op)
    /\ IsUnsignedInteger(c.lit)

\* the comparisons with the literal of every coercible one in single quotes
Coerced(items, schema) ==
    [k \in 1..Len(items) |->
        IF IsCoercible(items[k], schema)
        THEN [items[k] EXCEPT !.lit = <<"'">> \o @ \o <<"'">>]
        ELSE items[k]]

(***************************************************************************)
(* C15                                                                     *)
(***************************************************************************)
\* C15: coerce_numeric_string_literals puts in single quotes the literal of every
\* comparison <column> = <unsigned integer> on a text or bool column of the schema
\* (table-qualified or double-quoted or not, in any case) and changes no other character
\* of the statement, an integer comparison on the result of a function call included.
C15_QuotesOnlyTextColumnEqualities ==
    Returned("coerced") => ret.coerced = StatementOf(Coerced(arg.items, arg.schema))

(***************************************************************************)
(* C16                                                                     *)
(***************************************************************************)
\* C16: a comparison <column> = <unsigned integer> on a column of kind number, date or
\* other stays as it is when no text or bool column of the schema has the same name,
\* whatever other columns the schema has.
C16_NumberColumnUnchanged ==
    /\ Returned("coerced")
    /\ \A k \in 1..Len(arg.items) :
           /\ IsColumnReference(arg.items[k])
           /\ IsEquality(arg.items[k].op) /\ IsUnsignedInteger(arg.items[k].lit)
           /\ KindsOf(arg.items[k].col, arg.schema) # {}
           /\ KindsOf(arg.items[k].col, arg.schema) \cap {"text", "bool"} = {}
    => ret.coerced = StatementOf(arg.items)

(***************************************************************************)
(* C17                                                                     *)
(***************************************************************************)
\* the literal is a negative integer
IsNegativeInteger(lit) == Len(lit) > 1 /\ lit[1] = "-" /\ IsUnsignedInteger(Tail(lit))

\* the literal is a floating-point number: digits, a point, digits
IsFloat(lit) ==
    \E d \in 2..(Len(lit) - 1) :
        /\ lit[d] = "."
        /\ IsUnsignedInteger(SubSeq(lit, 1, d - 1))
        /\ IsUnsignedInteger(SubSeq(lit, d + 1, Len(lit)))

\* C17: a comparison on a text or bool column stays as it is when its operator is not =
\* (<, >, <=, >=, !=, <>), when its literal is a negative integer and when its literal is
\* a floating-point number such as 1.5.
C17_OtherOperatorsAndLiteralsUnchanged ==
    /\ Returned("coerced")
    /\ \A k \in 1..Len(arg.items) :
           /\ IsColumnReference(arg.items[k])
           /\ KindsOf(arg.items[k].col, arg.schema) \cap {"text", "bool"} # {}
           /\ \/ ~IsEquality(arg.items[k].op)
              \/ IsNegativeInteger(arg.items[k].lit)
              \/ IsFloat(arg.items[k].lit)
    => ret.coerced = StatementOf(arg.items)

(***************************************************************************)
(* whitelist_ok on the statements a model writes for listed tables: quoted *)
(* and schema-qualified names, EXTRACT(... FROM ...) and subqueries        *)
(***************************************************************************)
MaxListedFrags == 3

ListedHead == <<"S","E","L","E","C","T"," ","*">>

\* clauses on the tables A and B, an expression and a subquery that hold FROM in
\* parentheses, and a clause on the table X
ListedFrags ==
    { <<" ","F","R","O","M"," ","A">>,
      <<" ","F","R","O","M"," ","\"","A","\"">>,
      <<" ","F","R","O","M"," ","\"","S","\"",".","\"","A","\"">>,
      <<" ","J","O","I","N"," ","s",".","B">>,
      <<" ","F","R","O","M"," ","(","S","E","L","E","C","T"," ","1"," ","F","R","O","M"," ","B",")"," ","Q">>,
      <<" ","W","H","E","R","E"," ","E","X","T","R","A","C","T","(","Y","E","A","R"," ","F","R","O","M"," ","D",")"," ","="," ","2","0","1","4">>,
      <<" ","J","O","I","N"," ","X">> }

ListedStatements ==
    {ListedHead \o Concat(f) : f \in SeqsUpTo(ListedFrags, MaxListedFrags)}

InitListed ==
    /\ pc = "call"
    /\ arg \in [sql : ListedStatements, allowed : WhitelistAllowed, extra : WhitelistExtra]
    /\ ret = <<>>
    /\ IdleAsk
    /\ EmptyCache

SpecListed == InitListed /\ [][NextWhitelist]_vars

(***************************************************************************)
(* _sqltype_kind called directly                                           *)
(***************************************************************************)
MaxTypeFrags == 2

\* markers of every kind in both cases, halves of markers, and other text
TypeFrags ==
    { <<"D","A","T","E">>, <<"t","i","m","e">>, <<"T","I","M","E","S","T","A","M","P">>,
      <<"S","T","A","M","P">>, <<"I","n","t">>, <<"N","U","M">>, <<"D","E","C">>,
      <<"f","l","o","a","t">>, <<"D","O","U","B","L","E">>, <<"R","E","A","L">>,
      <<"c","h","a","r">>, <<"T","E","X","T">>, <<"S","t","r","i","n","g">>,
      <<"C","L","O","B">>, <<"b","o","o","l">>, <<"B","O">>, <<"O","L">>,
      <<"V","A","R">>, <<"(","1","0",")">>, <<"X">> }

\* a missing type, the empty type, and the types made of the fragments
SqlTypes == {Concat(f) : f \in SeqsUpTo(TypeFrags, MaxTypeFrags)}

InitKinds ==
    /\ pc = "call"
    /\ arg \in [sql_type : SqlTypes]
    /\ ret = <<>>
    /\ IdleAsk
    /\ EmptyCache

\* _sqltype_kind(sql_type)
CallSqltypeKind ==
    /\ pc = "call"
    /\ ret' = ret @@ ("kind" :> _sqltype_kind(arg.sql_type))
    /\ pc' = "done"
    /\ UNCHANGED <<arg, AskVars, CacheVars>>

NextKinds == CallSqltypeKind

SpecKinds == InitKinds /\ [][NextKinds]_vars

(***************************************************************************)
(* pick_columns_for_table called directly                                  *)
(***************************************************************************)
MaxTableColumns == 3

ColumnMeta(name, type, description) ==
    [name |-> name, type |-> type, description |-> description]

COL_A_ID == <<"A","_","I","D">>
COL_B_ID == <<"B","_","I","D">>
COL_AMOUNT == <<"A","M","O","U","N","T">>

\* the columns the tables are made of: four of the must-keep ones and three others
ColumnPool ==
    { ColumnMeta(COL_ID, NUMBERTYPE, <<>>),
      ColumnMeta(COL_PROJECT_ID, NUMBERTYPE, <<>>),
      ColumnMeta(COL_NAME, VARCHAR, <<"n","a","m","e"," ","o","f"," ","t","h","e"," ","p","r","o","j","e","c","t">>),
      ColumnMeta(COL_START_DATE, DATETYPE, <<>>),
      ColumnMeta(COL_A_ID, NUMBERTYPE, <<>>),
      ColumnMeta(COL_B_ID, NUMBERTYPE, <<>>),
      ColumnMeta(COL_AMOUNT, NUMBERTYPE, <<"t","o","t","a","l"," ","b","u","d","g","e","t">>) }

\* the columns of a table, in any order, no name twice
ColumnTables ==
    {t \in SeqsUpTo(ColumnPool, MaxTableColumns) :
        \A i, j \in 1..Len(t) : i # j => t[i].name # t[j].name}

ColumnQuestions ==
    { <<>>,
      <<"T","o","t","a","l"," ","a","m","o","u","n","t">>,
      <<"p","r","o","j","e","c","t","s"," ","o","f"," ","2","0","2","4">>,
      <<"l","i","b","e","l","l",E_ACUTE>> }

InitColumns ==
    /\ pc = "call"
    /\ arg \in [cols_meta : ColumnTables, question : ColumnQuestions,
                 max_cols : 0..MaxTableColumns]
    /\ ret = <<>>
    /\ IdleAsk
    /\ EmptyCache

\* pick_columns_for_table(schema, table, question, max_cols)
CallPickColumns ==
    /\ pc = "call"
    /\ ret' = ret @@ ("picked" :>
                         pick_columns_for_table(arg.cols_meta, arg.question, arg.max_cols))
    /\ pc' = "done"
    /\ UNCHANGED <<arg, AskVars, CacheVars>>

NextColumns == CallPickColumns

SpecColumns == InitColumns /\ [][NextColumns]_vars

(***************************************************************************)
(* pick_tables_for_question called directly                                *)
(***************************************************************************)
MaxCatalogTables == 4
MaxTopK == 3

TableInfo(name, description_table, columns) ==
    [name |-> name, description_table |-> description_table, aliases |-> <<>>,
     columns |-> columns, fks |-> <<>>]

COL_COST == <<"C","O","S","T">>

\* tables with and without a description, with shared and with no columns
TablePool ==
    { TableInfo(<<"P","R","O","J","E","C","T">>, <<"P","r","o","j","e","c","t","s"," ","l","i","s","t">>,
                <<ColumnMeta(COL_ID, NUMBERTYPE, <<>>), ColumnMeta(COL_NAME, VARCHAR, <<>>)>>),
      TableInfo(<<"T","A","S","K">>, <<>>,
                <<ColumnMeta(COL_ID, NUMBERTYPE, <<>>), ColumnMeta(COL_COST, NUMBERTYPE, <<>>)>>),
      TableInfo(<<"B","U","D","G","E","T">>, <<"c","o","s","t"," ","o","f"," ","p","r","o","j","e","c","t","s">>,
                <<ColumnMeta(COL_ID, NUMBERTYPE, <<>>)>>),
      TableInfo(<<"L","O","G">>, <<"l","i","s","t">>, <<ColumnMeta(COL_COST, NUMBERTYPE, <<>>)>>),
      TableInfo(<<"Z","E","D">>, <<"m","i","s","c">>, <<>>) }

\* the tables of a schema, in any order, no name twice
TableCatalogs ==
    {c \in SeqsUpTo(TablePool, MaxCatalogTables) :
        \A i, j \in 1..Len(c) : i # j => c[i].name # c[j].name}

\* no question (None is the empty text), a part of a word of a description, whole
\* words, punctuation, and a table name
TableQuestions ==
    { <<>>,
      <<"p","r","o">>,
      <<"L","i","s","t"," ","o","f"," ","p","r","o","j","e","c","t","s">>,
      <<"c","o","s","t",",","i","d",";">>,
      <<"t","a","s","k"," ","i","d">> }

InitTables ==
    /\ pc = "call"
    /\ arg \in [schema : TableCatalogs, question : TableQuestions, top_k : 0..MaxTopK]
    /\ ret = <<>>
    /\ IdleAsk
    /\ EmptyCache

\* pick_tables_for_question(schema, question, top_k), with the score each table got, the
\* description part of it, and whether the right-hand side of the "or" was returned
CallPickTables ==
    /\ pc = "call"
    /\ ret' = ret @@ ("picked" :> pick_tables_for_question(arg.schema, arg.question, arg.top_k))
                  @@ ("fallback" :> (TopScoring(arg.schema, arg.question, arg.top_k) = <<>>))
                  @@ ("scores" :> [t \in 1..Len(arg.schema) |->
                                      TableScore(arg.schema[t], arg.question)])
                  @@ ("desc_scores" :> [t \in 1..Len(arg.schema) |->
                                           DescriptionScore(arg.schema[t], arg.question)])
    /\ pc' = "done"
    /\ UNCHANGED <<arg, AskVars, CacheVars>>

NextTables == CallPickTables

SpecTables == InitTables /\ [][NextTables]_vars

(***************************************************************************)
(* load_schema and build_context_pack called one after the other           *)
(***************************************************************************)
MaxSourceTables == 3
MaxPackTables == 2
MaxPackColumns == 2

ForeignKey(from, to) == [from |-> from, to |-> to]

TableWithFks(name, description_table, columns, fks) ==
    [name |-> name, description_table |-> description_table, aliases |-> <<>>,
     columns |-> columns, fks |-> fks]

COL_TASK_ID == <<"T","A","S","K","_","I","D">>

\* a table without foreign keys, tables that point to one another, to a table without
\* columns and to a table no source holds
SourceTablePool ==
    { TableWithFks(<<"P","R","O","J","E","C","T">>, <<"P","r","o","j","e","c","t","s"," ","l","i","s","t">>,
                   <<ColumnMeta(COL_ID, NUMBERTYPE, <<>>), ColumnMeta(COL_NAME, VARCHAR, <<>>)>>,
                   <<>>),
      TableWithFks(<<"T","A","S","K">>, <<>>,
                   <<ColumnMeta(COL_ID, NUMBERTYPE, <<>>),
                     ColumnMeta(COL_PROJECT_ID, NUMBERTYPE, <<>>)>>,
                   <<ForeignKey(COL_PROJECT_ID, <<"P","R","O","J","E","C","T",".","I","D">>)>>),
      TableWithFks(<<"B","U","D","G","E","T">>, <<"c","o","s","t"," ","o","f"," ","p","r","o","j","e","c","t","s">>,
                   <<ColumnMeta(COL_ID, NUMBERTYPE, <<>>), ColumnMeta(COL_TASK_ID, <<>>, <<>>)>>,
                   <<ForeignKey(COL_TASK_ID, <<"T","A","S","K",".","I","D">>),
                     ForeignKey(COL_ID, <<"A","R","C","H","I","V","E",".","I","D">>),
                     ForeignKey(COL_ID, <<"Z","E","D",".","I","D">>)>>),
      TableWithFks(<<"Z","E","D">>, <<"m","i","s","c">>, <<>>, <<>>) }

\* the tables of a source, in any order, no name twice
SourceTableLists ==
    {c \in SeqsUpTo(SourceTablePool, MaxSourceTables) :
        \A i, j \in 1..Len(c) : i # j => c[i].name # c[j].name}

\* the JSON with a list of tables, the JSON that is a schema already, and a JSON that is
\* neither
SchemaSources ==
    [format : {"list", "dict"}, tables : SourceTableLists]
        \cup {[format |-> "scalar", tables |-> <<>>]}

PackQuestions ==
    { <<>>,
      <<"c","o","s","t"," ","o","f"," ","p","r","o","j","e","c","t","s"," ","2","0","2","4">>,
      <<"t","a","s","k"," ","i","d">> }

InitContext ==
    /\ pc = "call"
    /\ arg \in [source : SchemaSources, question : PackQuestions,
                 top_tables : 0..MaxPackTables, cols_per_table : 1..MaxPackColumns]
    /\ ret = <<>>
    /\ IdleAsk
    /\ EmptyCache

\* schema = load_schema(path)
CallLoadSchema ==
    /\ pc = "call"
    /\ ret' = ret @@ ("loaded" :> load_schema(arg.source))
    /\ pc' = IF load_schema(arg.source).raised = "" THEN "loaded" ELSE "done"
    /\ UNCHANGED <<arg, AskVars, CacheVars>>

\* build_context_pack(schema, question, top_tables, cols_per_table)
CallBuildContextPack ==
    /\ pc = "loaded"
    /\ ret' = ret @@ ("pack" :> build_context_pack(ret.loaded.schema, arg.question,
                                                    arg.top_tables, arg.cols_per_table))
    /\ pc' = "done"
    /\ UNCHANGED <<arg, AskVars, CacheVars>>

NextContext == CallLoadSchema \/ CallBuildContextPack

SpecContext == InitContext /\ [][NextContext]_vars

(***************************************************************************)
(* The embedding cache, as src/tests/test_semantic_columns.py uses it      *)
(***************************************************************************)
MaxCacheCalls == 4

TableOf(name, columns) == [name |-> name, columns |-> columns]

\* an empty database, the one of the test, and one whose names share tokens
Databases ==
    { <<>>,
      <<TableOf(<<"u","s","e","r","s">>, <<<<"i","d">>, <<"n","a","m","e">>>>),
        TableOf(<<"o","r","d","e","r","s">>, <<<<"i","d">>, <<"u","s","e","r","_","i","d">>>>)>>,
      <<TableOf(<<"A","_","b">>, <<<<"b",".","B">>>>), TableOf(<<"c">>, <<>>)>> }

InitCache ==
    /\ pc = "cache"
    /\ arg = <<>>
    /\ ret = <<>>
    /\ IdleAsk
    /\ EmptyCache

\* build_column_embeddings(connection)
CallBuildColumnEmbeddings ==
    /\ pc = "cache"
    /\ Len(cache_log) < MaxCacheCalls
    /\ \E connection \in Databases :
           LET r == build_column_embeddings(connection)
           IN  /\ _VECTOR_VOCAB' = r.vocab
               /\ _COLUMN_VECTORS' = r.vectors
               /\ _COLUMN_NAMES' = r.names
               /\ cache_log' = Append(cache_log,
                                      [op |-> "build", connection |-> connection,
                                       inspected |-> r.inspected, result |-> r.vectors])
    /\ UNCHANGED <<pc, arg, ret, AskVars>>

\* _clear_cache()
CallClearCache ==
    /\ pc = "cache"
    /\ Len(cache_log) < MaxCacheCalls
    /\ _VECTOR_VOCAB' = <<>>
    /\ _COLUMN_VECTORS' = [id |-> _COLUMN_VECTORS.id + 1, items |-> <<>>]
    /\ _COLUMN_NAMES' = <<>>
    /\ cache_log' = Append(cache_log, [op |-> "clear"])
    /\ UNCHANGED <<pc, arg, ret, AskVars>>

NextCache == CallBuildColumnEmbeddings \/ CallClearCache

SpecCache == InitCache /\ [][NextCache]_vars

(***************************************************************************)
(* The embedding cache with failing connections and similarity searches    *)
(***************************************************************************)
RelevantQueries == { <<"u","s","e","r"," ","i","d">>, <<"u","n","k","n","o","w","n">> }

RelevantTopK == 2

\* build_column_embeddings(connection) on a connection that raises while it inspects the
\* table after the first tables_done ones
CallBuildColumnEmbeddingsRaises ==
    /\ pc = "cache"
    /\ Len(cache_log) < MaxCacheCalls
    /\ _COLUMN_VECTORS.items = <<>>
    /\ \E connection \in Databases : \E tables_done \in 0..(Len(connection) - 1) :
           /\ _COLUMN_NAMES' = FailedBuildNames(connection, tables_done)
           /\ cache_log' = Append(cache_log,
                                  [op |-> "build_raised", connection |-> connection,
                                   tables_done |-> tables_done])
    /\ UNCHANGED <<pc, arg, ret, AskVars, _VECTOR_VOCAB, _COLUMN_VECTORS>>

\* find_relevant_columns(query_text, top_k)
CallFindRelevantColumns ==
    /\ pc = "cache"
    /\ Len(cache_log) < MaxCacheCalls
    /\ \E query_text \in RelevantQueries :
           IF _COLUMN_VECTORS.items = <<>>
           THEN cache_log' = Append(cache_log, [op |-> "find_raised", query_text |-> query_text])
           ELSE \E indices \in Rankings(query_text, RelevantTopK) :
                    cache_log' = Append(cache_log,
                                       [op |-> "find", query_text |-> query_text,
                                        indices |-> indices,
                                        vectors |-> [k \in 1..Len(indices) |->
                                                        _COLUMN_VECTORS.items[indices[k]]],
                                        vocab |-> _VECTOR_VOCAB,
                                        result |-> find_relevant_columns(indices)])
    /\ UNCHANGED <<pc, arg, ret, AskVars, _VECTOR_VOCAB, _COLUMN_VECTORS, _COLUMN_NAMES>>

NextSemantic ==
    \/ CallBuildColumnEmbeddings
    \/ CallBuildColumnEmbeddingsRaises
    \/ CallClearCache
    \/ CallFindRelevantColumns

SpecSemantic == InitCache /\ [][NextSemantic]_vars

(***************************************************************************)
(* ask(): the end-to-end path of src/app.py                                *)
(***************************************************************************)
MaxAskFrags == 2

\* what the model may answer: a statement, fenced or not, or something else
AskHeads ==
    { <<"S","E","L","E","C","T"," ","*">>,
      FENCE_sql \o <<"\n","s","e","l","e","c","t"," ","a">>,
      <<"D","R","O","P"," ","T","A","B","L","E"," ","T","1">> }

AskFrags ==
    { <<" ","F","R","O","M"," ","T","1">>,
      <<" ","J","O","I","N"," ","X">>,
      <<" ","(","C","R","E","A","T","E",")">>,
      <<" ","L","I","M","I","T"," ","9">>,
      <<" ","W","H","E","R","E"," ","F"," ","="," ","1">>,
      <<" ","F","R","O","M"," ","(","S","E","L","E","C","T"," ","1",")"," ","X">>,
      <<";">>,
      <<"\n">> \o FENCE }

\* pick_tables_for_question's results; a table of the schema may be named as a handle is
AskCandidateSets == {<<TableA>>, <<TableB, TableA>>, <<T2, TableB>>}

\* load_schema(): the tables with their columns, F a text column and N a number column
AskCatalog ==
    << [name |-> TableA,
        columns |-> << [name |-> <<"F">>, type |-> <<"V","A","R","C","H","A","R">>],
                       [name |-> <<"N">>, type |-> <<"N","U","M","B","E","R">>] >>],
       [name |-> TableB, columns |-> << [name |-> <<"N">>, type |-> <<"I","N","T">>] >>],
       [name |-> T2, columns |-> << [name |-> <<"N">>, type |-> <<"I","N","T">>] >>] >>

\* payload.limit: None is <<>>, an int n is <<n>>
AskLimits == {<<>>, <<0>>, <<7>>}

\* payload.limit or 5000
LimitOr5000(l) == IF l = <<>> \/ l = <<0>> THEN DefaultLimit ELSE l[1]

Init ==
    /\ pc = "start"
    /\ tables \in AskCandidateSets
    /\ limit \in AskLimits
    /\ raw_sql = <<>> /\ sql_clean = <<>> /\ sql_replaced = <<>> /\ sql_final = <<>>
    /\ response = <<>>
    /\ executed = <<>>
    /\ calls = <<>>
    /\ arg = <<>>
    /\ ret = <<>>
    /\ EmptyCache

\* raw_sql = llm_generate(...): whatever the model answers, stripped
AskGenerate ==
    /\ pc = "start"
    /\ \E h \in AskHeads : \E f \in SeqsUpTo(AskFrags, MaxAskFrags) :
           raw_sql' = strip(h \o Concat(f))
    /\ pc' = "generated"
    /\ UNCHANGED <<tables, limit, sql_clean, sql_replaced, sql_final, response,
                   executed, calls, arg, ret>>
    /\ UNCHANGED CacheVars

\* sql_clean = clean_sql_output(raw_sql)
AskClean ==
    /\ pc = "generated"
    /\ sql_clean' = clean_sql_output(raw_sql)
    /\ pc' = "cleaned"
    /\ UNCHANGED <<tables, limit, raw_sql, sql_replaced, sql_final, response,
                   executed, calls, arg, ret>>
    /\ UNCHANGED CacheVars

\* sql_replaced = replace_handles_with_tables(sql_clean, tables)
AskReplace ==
    /\ pc = "cleaned"
    /\ sql_replaced' = replace_handles_with_tables(sql_clean, tables)
    /\ pc' = "replaced"
    /\ UNCHANGED <<tables, limit, raw_sql, sql_clean, sql_final, response,
                   executed, calls, arg, ret>>
    /\ UNCHANGED CacheVars

ErrorNotSelect == "SQL non conforme (pas SELECT uniquement)"
ErrorNotAllowed == "SQL utilise des tables non autorisees pour ce contexte"

\* if not is_select_only(sql_replaced): return {"error": ...}
AskCheckReadOnly ==
    /\ pc = "replaced"
    /\ LET ok == is_select_only(sql_replaced)
       IN  /\ calls' = Append(calls, [fn |-> "is_select_only", sql |-> sql_replaced,
                                      result |-> ok])
           /\ IF ok
              THEN pc' = "read_only" /\ response' = response
              ELSE /\ pc' = "done"
                   /\ response' = [error |-> ErrorNotSelect, sql_raw |-> raw_sql,
                                   sql_clean |-> sql_clean, sql_final |-> sql_replaced]
    /\ UNCHANGED <<tables, limit, raw_sql, sql_clean, sql_replaced, sql_final,
                   executed, arg, ret>>
    /\ UNCHANGED CacheVars

AskCheckWhitelist_falls_through ==
    /\ pc = "read_only"
    /\ calls' = Append(calls, [fn |-> "whitelist_ok", sql |-> sql_replaced,
                               result |-> whitelist_ok(sql_replaced, tables)])
    /\ pc' = "whitelisted"
    /\ UNCHANGED <<tables, limit, raw_sql, sql_clean, sql_replaced, sql_final,
                   response, executed, arg, ret>>
    /\ UNCHANGED CacheVars

\* if not whitelist_ok(sql_replaced, allowed_tables=tables): return {"error": ...}
AskCheckWhitelist ==
    /\ pc = "read_only"
    /\ LET ok == whitelist_ok(sql_replaced, tables)
       IN  /\ calls' = Append(calls, [fn |-> "whitelist_ok", sql |-> sql_replaced,
                                      result |-> ok])
           /\ IF ok
              THEN pc' = "whitelisted" /\ response' = response
              ELSE /\ pc' = "done"
                   /\ response' = [error |-> ErrorNotAllowed, sql_raw |-> raw_sql,
                                   sql_clean |-> sql_clean, sql_final |-> sql_replaced,
                                   allowed_tables |-> tables]
    /\ UNCHANGED <<tables, limit, raw_sql, sql_clean, sql_replaced, sql_final,
                   executed, arg, ret>>
    /\ UNCHANGED CacheVars

\* sql_final = ensure_limit(sql_replaced, payload.limit or 5000)
AskEnsureLimit ==
    /\ pc = "whitelisted"
    /\ sql_final' = ensure_limit(sql_replaced, LimitOr5000(limit))
    /\ pc' = "limited"
    /\ UNCHANGED <<tables, limit, raw_sql, sql_clean, sql_replaced, response,
                   executed, calls, arg, ret>>
    /\ UNCHANGED CacheVars

\* df = run_sql(sql_final, dsn): the statement goes to the database, which answers with
\* rows or raises
AskRunSql ==
    /\ pc = "limited"
    /\ executed' = Append(executed, sql_final)
    /\ \E raised \in BOOLEAN :
           IF raised
           THEN pc' = "done" /\ response' = [exception |-> "psycopg2.Error"]
           ELSE pc' = "ran" /\ response' = response
    /\ UNCHANGED <<tables, limit, raw_sql, sql_clean, sql_replaced, sql_final,
                   calls, arg, ret>>
    /\ UNCHANGED CacheVars

\* the response built from the rows: return resp
AskRespond ==
    /\ pc = "ran"
    /\ response' = [sql |-> sql_final, tables_used |-> tables]
    /\ pc' = "done"
    /\ UNCHANGED <<tables, limit, raw_sql, sql_clean, sql_replaced, sql_final,
                   executed, calls, arg, ret>>
    /\ UNCHANGED CacheVars

Next ==
    \/ AskGenerate
    \/ AskClean
    \/ AskReplace
    \/ AskCheckReadOnly
    \/ AskCheckWhitelist
    \/ AskEnsureLimit
    \/ AskRunSql
    \/ AskRespond

Spec == Init /\ [][Next]_vars

\* a guard function was called and returned False
SomeCheckFailed == \E k \in 1..Len(calls) : calls[k].result = FALSE

\* out is what limit normalization makes of s
IsLimitNormalized(out, s, n) ==
    IF HasLimitClause(s) THEN out = s
    ELSE \E k \in 0..Len(s) :
             /\ IsTrimmedOf(SubSeq(s, 1, k), s, {" ", ";"})
             /\ IsLimited(out, SubSeq(s, 1, k), n)

(***************************************************************************)
(* C3                                                                      *)
(***************************************************************************)
\* C3: run_sql is called only after is_select_only and then whitelist_ok returned True
\* for the handle-resolved statement, with that statement after limit normalization; a
\* failed read-only check leaves the whitelist check unevaluated; a failed check ends the
\* request with an error that carries the statement (and the allowed tables for the
\* whitelist), and nothing is executed.
C3_ExecutedOnlyAfterBothChecks ==
    /\ executed # <<>> =>
           /\ Len(calls) = 2
           /\ calls[1] = [fn |-> "is_select_only", sql |-> sql_replaced, result |-> TRUE]
           /\ calls[2] = [fn |-> "whitelist_ok", sql |-> sql_replaced, result |-> TRUE]
           /\ Len(executed) = 1
           /\ IsLimitNormalized(executed[1], sql_replaced, LimitOr5000(limit))
    /\ \A k \in 1..Len(calls) :
           calls[k].fn = "whitelist_ok" =>
               k = 2 /\ calls[1].fn = "is_select_only" /\ calls[1].result = TRUE
    /\ SomeCheckFailed =>
           /\ pc = "done"
           /\ executed = <<>>
           /\ "error" \in DOMAIN response
           /\ response.sql_final = sql_replaced
           /\ response.sql_final = calls[Len(calls)].sql
           /\ calls[Len(calls)].fn = "whitelist_ok" =>
                  "allowed_tables" \in DOMAIN response /\ response.allowed_tables = tables

\* a fenced statement written with a handle passed both checks and was executed with
\* the default limit appended
C3_Witness ==
    /\ executed # <<>>
    /\ Len(calls) = 2
    /\ LitAt(raw_sql, 1, FENCE)
    /\ sql_replaced # sql_clean
    /\ executed[1] = sql_replaced \o <<" ","L","I","M","I","T"," ","5","0","0","0",";">>

(***************************************************************************)
(* C4                                                                      *)
(***************************************************************************)
\* C4, as claimed: the read-only check of the end-to-end path removes balanced
\* parenthesized substrings first, so a statement that starts with SELECT and has a
\* banned word only inside balanced parentheses passes it.
C4_BannedInsideParensPasses ==
    /\ calls # <<>>
    /\ TrimmedStartsWithSelect(calls[1].sql)
    /\ ~BannedWordOutside(calls[1].sql)
    => calls[1].result = TRUE

\* C4, amended: the read-only check of the end-to-end path is guard.is_select_only, which
\* removes nothing before the banned-keyword scan: the check passes exactly when the
\* statement starts with SELECT and has no banned whole word anywhere, so a banned word
\* inside balanced parentheses fails it, and nothing is executed.
C4_BannedAnywhereFails ==
    calls # <<>> =>
        /\ calls[1].fn = "is_select_only"
        /\ calls[1].result =
               (TrimmedStartsWithSelect(calls[1].sql) /\ ~BannedWord(calls[1].sql))
        /\ BannedWord(calls[1].sql) => executed = <<>> /\ pc = "done"

\* the request of a statement that starts with SELECT and holds CREATE only inside
\* balanced parentheses has ended with the read-only error
C4_Witness ==
    /\ calls # <<>>
    /\ TrimmedStartsWithSelect(calls[1].sql)
    /\ BannedWord(calls[1].sql) /\ ~BannedWordOutside(calls[1].sql)
    /\ calls[1].result = FALSE
    /\ pc = "done"
    /\ "error" \in DOMAIN response /\ response.error = ErrorNotSelect

(***************************************************************************)
(* C12                                                                     *)
(***************************************************************************)
\* the model output is the statement between an opening sql fence and a closing fence
IsFenced(raw) ==
    /\ Len(raw) >= 11
    /\ LitAt(raw, 1, FENCE_sql \o <<"\n">>)
    /\ LitAt(raw, Len(raw) - 3, <<"\n">> \o FENCE)
    /\ \A k \in 8..(Len(raw) - 4) : raw[k] # GRAVE

Unfenced(raw) == SubSeq(raw, 8, Len(raw) - 4)

\* the bare or double-quoted handles of the Candidate Set
HandleNames(tbls) ==
    {Handle(k) : k \in 1..Len(tbls)} \cup {Quoted(Handle(k)) : k \in 1..Len(tbls)}

\* every identifier that follows FROM or JOIN is a handle of the Candidate Set
NamesOnlyHandles(s, tbls) ==
    \A i \in 1..Len(s) :
        NamesTableAt(s, i) => NormalizedName(NameAfter(s, i)) \in HandleNames(tbls)

\* the word FROM or JOIN, in any case, stands at index i
KeywordAt(s, i) ==
    /\ WordBoundary(s, i)
    /\ LitAtCI(s, i, FROM) \/ LitAtCI(s, i, JOIN)
    /\ WordBoundary(s, i + 4)

\* every FROM or JOIN outside balanced parentheses is followed at once by a bare or
\* double-quoted handle of the Candidate Set
HandleFollowsEveryKeyword(s, tbls) ==
    \A i \in 1..Len(s) :
        KeywordAt(s, i) /\ ~Enclosed(s, i)
            => NamesTableAt(s, i) /\ NameAfter(s, i) \in HandleNames(tbls)

\* the statement with every whole-word handle Ti written as the table name at position i
RECURSIVE WithTableNames(_, _, _)
WithTableNames(s, i, tbls) ==
    IF i > Len(s) THEN <<>>
    ELSE LET here == {k \in 1..Len(tbls) :
                         /\ LitAt(s, i, Handle(k))
                         /\ WordBoundary(s, i) /\ WordBoundary(s, i + Len(Handle(k)))}
         IN  IF here # {}
             THEN LET k == CHOOSE k \in here : TRUE
                  IN  tbls[k] \o WithTableNames(s, i + Len(Handle(k)), tbls)
             ELSE <<s[i]>> \o WithTableNames(s, i + 1, tbls)

\* a fenced statement that starts with SELECT and ends without whitespace, without
\* terminator, LIMIT or banned word
IsPlainFencedSelect(raw) ==
    /\ IsFenced(raw)
    /\ SelectAt(Unfenced(raw), 1)
    /\ ~IsSpace(Unfenced(raw)[Len(Unfenced(raw))])
    /\ \A k \in 1..Len(Unfenced(raw)) : Unfenced(raw)[k] # ";"
    /\ ~HasLimitClause(Unfenced(raw))
    /\ ~BannedWord(Unfenced(raw))

\* the request was authorized and its final statement is the unfenced statement with the
\* table names in place of the handles, then " LIMIT 5000;"
AuthorizedWithDefaultLimit ==
    LET final == WithTableNames(Unfenced(raw_sql), 1, tables)
                     \o <<" ","L","I","M","I","T"," ","5","0","0","0",";">>
    IN  /\ pc \in {"limited", "ran", "done"} => sql_final = final
        /\ pc \in {"ran", "done"} => executed = <<final>>

\* C12, as claimed: a fenced statement that starts with SELECT, has no terminator, no
\* LIMIT and no banned keyword, and names only handles of the Candidate Set after FROM and
\* JOIN is authorized, and with the default limit the final statement is the unfenced
\* statement with every handle Ti replaced by the table name at position i, followed by
\* " LIMIT 5000;".
C12_FencedHandlesAuthorized ==
    /\ pc \in {"limited", "ran", "done"}
    /\ IsPlainFencedSelect(raw_sql)
    /\ NamesOnlyHandles(Unfenced(raw_sql), tables)
    /\ LimitOr5000(limit) = DefaultLimit
    => AuthorizedWithDefaultLimit

\* C12, amended: the same holds when every FROM or JOIN outside balanced parentheses is
\* followed at once by a bare or double-quoted handle of the Candidate Set (not by a
\* parenthesized subquery, whose alias the whitelist check takes for a table), and no
\* table name of the Candidate Set is the handle of a later position.
C12_FencedBareHandlesAuthorized ==
    /\ pc \in {"limited", "ran", "done"}
    /\ IsPlainFencedSelect(raw_sql)
    /\ HandleFollowsEveryKeyword(Unfenced(raw_sql), tables)
    /\ ~NameIsLaterHandle(tables)
    /\ LimitOr5000(limit) = DefaultLimit
    => AuthorizedWithDefaultLimit

\* the fenced statement "select a FROM T1" was authorized for the Candidate Set [B, A] and
\* executed as "select a FROM B LIMIT 5000;"
C12_Witness ==
    /\ pc = "done"
    /\ IsPlainFencedSelect(raw_sql)
    /\ HandleFollowsEveryKeyword(Unfenced(raw_sql), tables)
    /\ tables = <<TableB, TableA>>
    /\ Unfenced(raw_sql) = <<"s","e","l","e","c","t"," ","a"," ","F","R","O","M"," ","T","1">>
    /\ executed = << <<"s","e","l","e","c","t"," ","a"," ","F","R","O","M"," ","B"," ",
                       "L","I","M","I","T"," ","5","0","0","0",";">> >>

(***************************************************************************)
(* C13                                                                     *)
(***************************************************************************)
\* C13: every statement handed to run_sql is the guard's output after the literal
\* coercer: coerce_numeric_string_literals applied to the statement ensure_limit returned.
C13_ExecutedIsCoerced ==
    \A k \in 1..Len(executed) :
        executed[k] = coerce_numeric_string_literals(sql_final, AskCatalog)

MustKeepNames ==
    {COL_ID, COL_PROJECT_ID, COL_NAME, COL_CODE, COL_START_DATE, COL_END_DATE}

\* the must-keep columns a table has
MustKeepPresent(cols_meta) ==
    {cols_meta[k].name : k \in 1..Len(cols_meta)} \cap MustKeepNames

C14_MustKeepRetained ==
    (Returned("picked") /\ arg.max_cols >= Cardinality(MustKeepPresent(arg.cols_meta)))
        => MustKeepPresent(arg.cols_meta) \subseteq Range(ret.picked)

(***************************************************************************)
(* C18: a FROM keyword that occurs only inside balanced parentheses, as in *)
(* EXTRACT(YEAR FROM col), never causes a rejection: whitelist_ok accepts  *)
(* every statement whose FROM/JOIN identifiers outside parentheses are all *)
(* in the allowed list.                                                    *)
(***************************************************************************)
C18_ListedOutsideAccepted ==
    (Returned("wl") /\ ~NamesUnlistedTableOutside(arg.sql, arg.allowed)) => ret.wl = TRUE

(***************************************************************************)
(* C19: once a build_column_embeddings call has populated the cache, every *)
(* later build_column_embeddings call returns the identical cached vector  *)
(* list without inspecting the database again, until _clear_cache is       *)
(* called; after _clear_cache the next call rebuilds the embeddings.       *)
(***************************************************************************)
IsBuild(k) == cache_log[k].op = "build"

IsClear(k) == cache_log[k].op = "clear"

\* the number of columns of a database
RECURSIVE NumColumns(_)
NumColumns(connection) ==
    IF connection = <<>> THEN 0
    ELSE Len(Head(connection).columns) + NumColumns(Tail(connection))

\* the i-th call is a build that returned a non-empty list, the j-th a later build, and
\* no _clear_cache was called between them
CachedBetween(i, j) ==
    /\ i < j
    /\ IsBuild(i) /\ cache_log[i].result.items # <<>>
    /\ IsBuild(j)
    /\ \A k \in (i + 1)..(j - 1) : ~IsClear(k)

\* the j-th call is the first build after a _clear_cache
FirstBuildAfterClear(j) ==
    /\ j > 1
    /\ IsBuild(j)
    /\ IsClear(j - 1)

C19_CachedUntilCleared ==
    /\ \A i, j \in 1..Len(cache_log) :
           CachedBetween(i, j) =>
               /\ cache_log[j].result = cache_log[i].result
               /\ ~cache_log[j].inspected
    /\ \A j \in 1..Len(cache_log) :
           FirstBuildAfterClear(j) =>
               /\ cache_log[j].inspected
               /\ Len(cache_log[j].result.items) = NumColumns(cache_log[j].connection)
               /\ \A i \in 1..(j - 1) :
                      IsBuild(i) => cache_log[i].result.id # cache_log[j].result.id

\* a build filled the cache, a build on another database returned the same list without
\* inspecting, the cache was cleared, and the next build inspected the other database
C19_Witness ==
    /\ Len(cache_log) = 4
    /\ CachedBetween(1, 2)
    /\ cache_log[2].connection # cache_log[1].connection
    /\ cache_log[2].result = cache_log[1].result
    /\ IsClear(3)
    /\ FirstBuildAfterClear(4)
    /\ cache_log[4].connection = cache_log[2].connection
    /\ cache_log[4].inspected
    /\ cache_log[4].result.items # <<>>
    /\ cache_log[4].result.items # cache_log[1].result.items

(***************************************************************************)
(* C27: _sqltype_kind is total and applies its substring rules without     *)
(* regard to case in the order date, number, text, bool, other: a type     *)
(* containing DATE, TIMESTAMP or TIME is date even if it also holds a      *)
(* number or text marker; otherwise one containing INT, NUM, DEC, FLOAT,   *)
(* DOUBLE or REAL is number; otherwise one containing CHAR, TEXT, STRING   *)
(* or CLOB is text; otherwise one containing BOOL is bool; every other     *)
(* type, and a missing or empty type, is other.                            *)
(***************************************************************************)
DateMarkers == { <<"D","A","T","E">>, <<"T","I","M","E","S","T","A","M","P">>, <<"T","I","M","E">> }
NumberMarkers == { <<"I","N","T">>, <<"N","U","M">>, <<"D","E","C">>, <<"F","L","O","A","T">>,
  <<"D","O","U","B","L","E">>, <<"R","E","A","L">> }
TextMarkers == { <<"C","H","A","R">>, <<"T","E","X","T">>, <<"S","T","R","I","N","G">>,
  <<"C","L","O","B">> }
BoolMarkers == { <<"B","O","O","L">> }

\* the type holds one of the markers, in any case
HasMarker(type, markers) ==
    \E m \in markers : \E i \in 1..Len(type) : LitAtCI(type, i, m)

\* the kind the priority order gives
KindByPriority(type) ==
    CASE HasMarker(type, DateMarkers) -> "date"
      [] ~HasMarker(type, DateMarkers) /\ HasMarker(type, NumberMarkers) -> "number"
      [] ~HasMarker(type, DateMarkers \cup NumberMarkers) /\ HasMarker(type, TextMarkers) -> "text"
      [] ~HasMarker(type, DateMarkers \cup NumberMarkers \cup TextMarkers)
             /\ HasMarker(type, BoolMarkers) -> "bool"
      [] OTHER -> "other"

C27_KindByPriority ==
    Returned("kind") => ret.kind = KindByPriority(arg.sql_type)

\* a lower-case time beside a number marker was classified as date
C27_Witness ==
    /\ Returned("kind")
    /\ HasMarker(arg.sql_type, NumberMarkers)
    /\ \E i \in 1..Len(arg.sql_type) : LitAt(arg.sql_type, i, <<"t","i","m","e">>)
    /\ ret.kind = "date"

(***************************************************************************)
(* C24: pick_columns_for_table returns at most max_cols column names, with *)
(* no duplicates, for every table, every question and every max_cols >= 0; *)
(* the must-keep append never pushes the result past the cap.              *)
(***************************************************************************)
NoDuplicates(q) == \A i, j \in 1..Len(q) : i # j => q[i] # q[j]

C24_AtMostMaxCols ==
    (Returned("picked") /\ arg.max_cols >= 0) =>
        /\ Len(ret.picked) <= arg.max_cols
        /\ NoDuplicates(ret.picked)

(***************************************************************************)
(* C21: when at least one table scores above zero, pick_tables_for_question *)
(* returns exactly the positive-scoring tables ordered by score descending *)
(* with ties broken by table name in descending lexical order, truncated   *)
(* to the first k entries, for every configured k.                         *)
(***************************************************************************)
\* the positions of the tables that score above zero
PositiveTables == {t \in 1..Len(arg.schema) : ret.scores[t] > 0}

\* the position in the schema of the table of that name
PositionOf(name) == CHOOSE t \in 1..Len(arg.schema) : arg.schema[t].name = name

\* the table at position t comes before the one at position u: higher score, or the
\* same score and the greater name
RanksBefore(t, u) ==
    \/ ret.scores[t] > ret.scores[u]
    \/ ret.scores[t] = ret.scores[u] /\ StrLess(arg.schema[u].name, arg.schema[t].name)

\* picked is the first k of the positive-scoring tables in rank order
IsTopOfPositive(picked, k) ==
    /\ Len(picked) = (IF k < Cardinality(PositiveTables) THEN k
                       ELSE Cardinality(PositiveTables))
    /\ \A i \in 1..Len(picked) :
           \E t \in PositiveTables : arg.schema[t].name = picked[i]
    /\ \A i, j \in 1..Len(picked) :
           i < j => RanksBefore(PositionOf(picked[i]), PositionOf(picked[j]))
    /\ \A t \in PositiveTables :
           arg.schema[t].name \notin Range(picked) =>
               \A i \in 1..Len(picked) : RanksBefore(PositionOf(picked[i]), t)

C21_TopPositiveTables ==
    (Returned("picked") /\ PositiveTables # {}) => IsTopOfPositive(ret.picked, arg.top_k)

(***************************************************************************)
(* C22: if no table scores above zero, pick_tables_for_question returns    *)
(* the first 3 tables in Catalog iteration order (all of them when there   *)
(* are fewer than 3), without raising, for every question including an     *)
(* empty or missing one; this fallback is used in no other case.           *)
(***************************************************************************)
\* the names of the first three tables of the schema, or of all of them
FirstThreeNames ==
    [k \in 1..(IF Len(arg.schema) < 3 THEN Len(arg.schema) ELSE 3) |-> arg.schema[k].name]

C22_FallbackOnlyWithoutScore ==
    Returned("picked") =>
        /\ PositiveTables = {} => ret.picked = FirstThreeNames
        /\ ret.fallback => PositiveTables = {}

(***************************************************************************)
(* C23: the description signal adds 3 to a table's score for each question *)
(* word that equals a whole word of the table description; a question word *)
(* that occurs in the description only as part of a longer word adds       *)
(* nothing.                                                                *)
(***************************************************************************)
\* the text in lower case, by position
InLowerCase(text) == [i \in 1..Len(text) |-> LowerChar(text[i])]

\* the characters that separate the words of a question or of a description
IsSeparator(c) == IsSpace(c) \/ c \in {",", ";"}

\* the word of the text that spans the indices a..b
IsWordSpan(text, a, b) ==
    /\ a <= b
    /\ \A k \in a..b : ~IsSeparator(text[k])
    /\ a = 1 \/ IsSeparator(text[a - 1])
    /\ b = Len(text) \/ IsSeparator(text[b + 1])

\* the number of words of the question that are a whole word of the description
WholeWordMatches(description, question) ==
    Cardinality({a \in 1..Len(question) :
        \E b \in a..Len(question) :
            /\ IsWordSpan(question, a, b)
            /\ \E c \in 1..Len(description) : \E d \in c..Len(description) :
                   /\ IsWordSpan(description, c, d)
                   /\ InLowerCase(SubSeq(description, c, d))
                          = InLowerCase(SubSeq(question, a, b))})

C23_DescriptionWholeWords ==
    Returned("desc_scores") =>
        \A t \in 1..Len(arg.schema) :
            ret.desc_scores[t]
                = 3 * WholeWordMatches(arg.schema[t].description_table, arg.question)

(***************************************************************************)
(* What the claims say about a Context Pack                                *)
(***************************************************************************)
\* index of the first occurrence of sep in text at or after i, 0 if none
FirstAt(text, sep, i) ==
    LET found == {k \in i..Len(text) : LitAt(text, k, sep)}
    IN  IF found = {} THEN 0 ELSE CHOOSE k \in found : \A m \in found : k <= m

\* the parts of the text between the occurrences of sep, from index i on
RECURSIVE PartsFrom(_, _, _)
PartsFrom(text, sep, i) ==
    IF FirstAt(text, sep, i) = 0 THEN <<Drop(text, i)>>
    ELSE <<SubSeq(text, i, FirstAt(text, sep, i) - 1)>>
             \o PartsFrom(text, sep, FirstAt(text, sep, i) + Len(sep))

\* the lines of the context text; an empty text has none
ContextLines(context) ==
    IF context = <<>> THEN <<>> ELSE PartsFrom(context, <<"\n">>, 1)

RelationsPrefix == <<"R","e","l","a","t","i","o","n","s",":"," ">>

\* the relation entries of the context text
RelationEntries(context) ==
    LET lines == ContextLines(context)
    IN  IF lines # <<>> /\ startswith(lines[Len(lines)], RelationsPrefix)
        THEN PartsFrom(lines[Len(lines)], <<";", " ">>, Len(RelationsPrefix) + 1)
        ELSE <<>>

\* the table and the column a foreign key points to: the text before and after the "."
TargetTable(fk) == SubSeq(fk.to, 1, FirstAt(fk.to, <<".">>, 1) - 1)

TargetColumn(fk) == Drop(fk.to, FirstAt(fk.to, <<".">>, 1) + 1)

\* Ti.<from> -> Tj.<to>
RelationEntry(i, fk, j) ==
    <<"T">> \o NatToStr(i) \o <<".">> \o fk.from \o <<" ","-",">"," ">> \o <<"T">> \o NatToStr(j)
        \o <<".">> \o TargetColumn(fk)

\* the table of that name in a list of tables
NamedIn(tbls, name) == CHOOSE t \in Range(tbls) : t.name = name

(***************************************************************************)
(* C25: the Catalog built by load_schema from a schema source keeps each   *)
(* table's declared foreign keys (fks entries with from and to =           *)
(* table.col), so that a foreign key whose target table is also in the     *)
(* selection appears as a relation Ti.<from> -> Tj.<to> in the Context     *)
(* Pack built from that Catalog.                                           *)
(***************************************************************************)
C25_DeclaredFksKept ==
    /\ (Returned("loaded") /\ ret.loaded.raised = "") =>
           \A t \in Range(arg.source.tables) :
               NamedIn(ret.loaded.schema, t.name).fks = t.fks
    /\ (Returned("pack") /\ ret.pack.raised = "") =>
           \A i, j \in 1..Len(ret.pack.tables) :
               \A fk \in Range(NamedIn(arg.source.tables, ret.pack.tables[i]).fks) :
                   TargetTable(fk) = ret.pack.tables[j] =>
                       RelationEntry(i, fk, j) \in Range(RelationEntries(ret.pack.context))

(***************************************************************************)
(* C26: build_context_pack numbers handles by position: line i of the      *)
(* context text is Ti=<table at position i of the selection>(...) listing  *)
(* the columns selected for that table, the returned table list is the     *)
(* selection in the same order with no entry reordered or dropped, and     *)
(* every relation entry Ti.<from> -> Tj.<to> comes from a foreign key of   *)
(* the table at position i whose target table is at position j; no         *)
(* relation is emitted for a foreign key whose target is outside the       *)
(* selection.                                                              *)
(***************************************************************************)
\* the text lists the items, separated by a comma and a space
RECURSIVE IsListingOf(_, _)
IsListingOf(text, items) ==
    IF items = <<>> THEN text = <<>>
    ELSE IF Len(items) = 1 THEN text = items[1]
    ELSE /\ startswith(text, items[1] \o <<",", " ">>)
         /\ IsListingOf(Drop(text, Len(items[1]) + 3), Tail(items))

\* a column as the context shows it: its name, and its type when it has one
ShownColumn(tinfo, c) ==
    LET type == (CHOOSE m \in Range(tinfo.columns) : m.name = c).type
    IN  IF type = <<>> THEN c ELSE c \o <<" ">> \o type

\* the line is Ti=<table>(<columns>) for the table and the columns given
IsHandleLine(line, i, tinfo, cols) ==
    LET open == <<"T">> \o NatToStr(i) \o <<"=">> \o tinfo.name \o <<"(">>
    IN  /\ startswith(line, open)
        /\ line # <<>> /\ line[Len(line)] = ")"
        /\ IsListingOf(SubSeq(line, Len(open) + 1, Len(line) - 1),
                       [k \in 1..Len(cols) |-> ShownColumn(tinfo, cols[k])])

\* the foreign keys, with the position of their table, whose target is in the selection
SelectedFks(schema, selection) ==
    UNION { {<<i, k>> : k \in {k \in 1..Len(NamedIn(schema, selection[i]).fks) :
                                  TargetTable(NamedIn(schema, selection[i]).fks[k])
                                      \in Range(selection)}} :
            i \in 1..Len(selection) }

PackIsByPosition(schema, selection, pack) ==
    LET lines == ContextLines(pack.context)
        entries == RelationEntries(pack.context)
    IN  /\ pack.tables = selection
        /\ Len(lines) = Len(selection) + (IF entries = <<>> THEN 0 ELSE 1)
        /\ \A i \in 1..Len(selection) :
               /\ pack.selected_cols[i]
                      = pick_columns_for_table(NamedIn(schema, selection[i]).columns,
                                               arg.question, arg.cols_per_table)
               /\ IsHandleLine(lines[i], i, NamedIn(schema, selection[i]),
                               pack.selected_cols[i])
        /\ \A e \in 1..Len(entries) :
               \E i, j \in 1..Len(selection) :
                   \E fk \in Range(NamedIn(schema, selection[i]).fks) :
                       /\ TargetTable(fk) = selection[j]
                       /\ entries[e] = RelationEntry(i, fk, j)
        /\ Len(entries) = Cardinality(SelectedFks(schema, selection))

C26_HandlesByPosition ==
    (Returned("pack") /\ ret.pack.raised = "") =>
        PackIsByPosition(ret.loaded.schema,
                         pick_tables_for_question(ret.loaded.schema, arg.question,
                                                  arg.top_tables),
                         ret.pack)

\* a pack of two tables was built whose only relation goes from the second table to the
\* first, while the foreign keys of that table to tables outside the selection gave none
C26_Witness ==
    /\ Returned("pack") /\ ret.pack.raised = ""
    /\ ret.pack.tables = <<<<"T","A","S","K">>, <<"B","U","D","G","E","T">>>>
    /\ RelationEntries(ret.pack.context) = <<<<"T","2",".","T","A","S","K","_","I","D"," ","-",">"," ","T","1",".","I","D">>>>
    /\ Len(NamedIn(ret.loaded.schema, <<"B","U","D","G","E","T">>).fks) = 3

(***************************************************************************)
(* C28: after any sequence of build_column_embeddings calls (including a   *)
(* call that fails with an exception part-way through schema inspection),  *)
(* _clear_cache calls and find_relevant_columns calls, the cached          *)
(* column-name list and the cached vector list have the same length and    *)
(* entry i of each describes the same column, so find_relevant_columns     *)
(* returns the names of exactly the columns whose vectors it ranked.       *)
(***************************************************************************)
\* the vector is the one of the column of that name under the vocabulary
DescribesColumn(vector, name, vocab) ==
    LET words == SplitFrom([i \in 1..Len(name) |->
                               IF name[i] \in {".", "_"} THEN " " ELSE LowerChar(name[i])], 1)
    IN  /\ Len(vector.counts) = Len(vocab)
        /\ \A i \in 1..Len(vocab) :
               vector.counts[i] = Cardinality({k \in 1..Len(words) : words[k] = vocab[i]})

C28_NamesMatchVectors ==
    /\ Len(_COLUMN_NAMES) = Len(_COLUMN_VECTORS.items)
    /\ \A i \in 1..Len(_COLUMN_VECTORS.items) :
           i <= Len(_COLUMN_NAMES)
               => DescribesColumn(_COLUMN_VECTORS.items[i], _COLUMN_NAMES[i], _VECTOR_VOCAB)
    /\ \A c \in 1..Len(cache_log) :
           cache_log[c].op = "find" =>
               \A k \in 1..Len(cache_log[c].result) :
                   DescribesColumn(cache_log[c].vectors[k], cache_log[c].result[k],
                                   cache_log[c].vocab)

====
